---- MODULE Spec2Model ----
(***************************************************************************)
(* Twilio <-> Gemini Live audio bridge: the mu-law codec (AudioConverter), *)
(* the model client (GeminiLiveClient), the telephony listener             *)
(* (TwilioWebSocketServer) and the orchestrator (Tw2GemServer).            *)
(***************************************************************************)
EXTENDS Integers, Sequences, FiniteSets, TLC

VARIABLES
    codecOp,    \* which codec function produced codecOut ("input" = none yet)
    codecIn,    \* the argument handed to the codec
    codecOut,   \* the value the codec returned
    socket,     \* Tw2GemSocket per telephony connection
    client,     \* GeminiLiveClient per model connection
    callSeq,    \* number of call ids generated so far
    apiCalls    \* history: the send operations a direct caller invoked

codecVars == <<codecOp, codecIn, codecOut>>
bridgeVars == <<socket, client, callSeq, apiCalls>>

vars == <<codecOp, codecIn, codecOut, socket, client, callSeq, apiCalls>>

(***************************************************************************)
(* JavaScript bitwise operators.  They act on 32-bit two's complement      *)
(* integers; every operand of the codec stays below 2^17 in magnitude, so  *)
(* the low 16 bits decide each "&" with a mask below 2^16, "<<" never      *)
(* overflows and ">>" is the arithmetic (flooring) shift.                  *)
(***************************************************************************)
RECURSIVE Pow2(_)
Pow2(n) == IF n = 0 THEN 1 ELSE 2 * Pow2(n - 1)

RECURSIVE NatAnd(_, _)
NatAnd(a, b) ==
    IF a = 0 \/ b = 0 THEN 0
    ELSE (a % 2) * (b % 2) + 2 * NatAnd(a \div 2, b \div 2)

RECURSIVE NatOr(_, _)
NatOr(a, b) ==
    IF a = 0 THEN b
    ELSE IF b = 0 THEN a
    ELSE (IF a % 2 = 1 \/ b % 2 = 1 THEN 1 ELSE 0) + 2 * NatOr(a \div 2, b \div 2)

\* x & mask, for a mask in 0..65535 and any 32-bit x
BitAnd(x, mask) == NatAnd(x % 65536, mask)
\* a | b for non-negative operands
BitOr(a, b) == NatOr(a, b)
\* ~x
BitNot(x) == -x - 1
\* x >> n
Shr(x, n) == x \div Pow2(n)
\* x << n
Shl(x, n) == x * Pow2(n)

Bytes == 0..255
Int16 == -32768..32767

(***************************************************************************)
(* AudioConverter                                                          *)
(***************************************************************************)
BIAS == 132
CLIP == 32635

muLawToPCM(muLawSample) ==
    LET inv      == BitNot(muLawSample)
        sign     == BitAnd(inv, 128)
        exponent == BitAnd(Shr(inv, 4), 7)
        mantissa == BitAnd(inv, 15)
        sample   == Shl(Shl(mantissa, 3) + BIAS, exponent)
    IN  IF sign # 0 THEN -sample ELSE sample

\* the for loop of pcmToMuLaw: returns the exponent it ends with
RECURSIVE ExponentSearch(_, _, _)
ExponentSearch(sample, expMask, exponent) ==
    IF BitAnd(sample, expMask) = 0 /\ exponent > 0
    THEN ExponentSearch(sample, Shr(expMask, 1), exponent - 1)
    ELSE exponent

\* pcmToMuLaw without the clip at 32635
pcmToMuLaw_noClip(sample0) ==
    LET sign     == BitAnd(Shr(sample0, 8), 128)
        sample1  == IF sign # 0 THEN -sample0 ELSE sample0
        sample   == sample1 + BIAS
        exponent == ExponentSearch(sample, 16384, 7)
        mantissa == BitAnd(Shr(sample, exponent + 3), 15)
        muLawByte == BitNot(BitOr(BitOr(sign, Shl(exponent, 4)), mantissa))
    IN  BitAnd(muLawByte, 255)

pcmToMuLaw(sample0) ==
    LET sign     == BitAnd(Shr(sample0, 8), 128)
        sample1  == IF sign # 0 THEN -sample0 ELSE sample0
        sample2  == IF sample1 > CLIP THEN CLIP ELSE sample1
        sample   == sample2 + BIAS
        exponent == ExponentSearch(sample, 16384, 7)
        mantissa == BitAnd(Shr(sample, exponent + 3), 15)
        muLawByte == BitNot(BitOr(BitOr(sign, Shl(exponent, 4)), mantissa))
    IN  BitAnd(muLawByte, 255)


\* a store into an Int16Array / a Uint8Array element
ToInt16(x) == ((x + 32768) % 65536) - 32768
ToUint8(x) == x % 256

\* the sum stored without the division by 3
RoundDiv3_sum(n) == n

\* Math.round(n / 3): the nearest integer, halves towards +infinity
RoundDiv3(n) == (2 * n + 3) \div 6

(* A base64 payload is held as the bytes (mu-law) or the 16-bit samples     *)
(* (PCM) it encodes.                                                        *)
\* the upsampler without the duplication: one sample per byte
convertBase64MuLawToBase64PCM16k_noHold(muLawBytes) ==
    [i \in 1..Len(muLawBytes) |-> ToInt16(muLawToPCM(muLawBytes[i]))]

convertBase64MuLawToBase64PCM16k(muLawBytes) ==
    LET pcm8000 == [i \in 1..Len(muLawBytes) |->
                        ToInt16(muLawToPCM(muLawBytes[i]))]
    IN  [j \in 1..(2 * Len(pcm8000)) |-> pcm8000[(j + 1) \div 2]]

\* the downsampling keeping the first sample of each run instead of the mean
convertBase64PCM24kToBase64MuLaw8k_decimate(pcm24k) ==
    [i \in 1..(Len(pcm24k) \div 3) |-> ToUint8(pcmToMuLaw(pcm24k[3 * (i - 1) + 1]))]

convertBase64PCM24kToBase64MuLaw8k(pcm24k) ==
    LET samples8k == Len(pcm24k) \div 3
        interpolated == [i \in 1..samples8k |->
            LET a == pcm24k[3 * (i - 1) + 1]
                b == IF 3 * (i - 1) + 2 <= Len(pcm24k)
                     THEN pcm24k[3 * (i - 1) + 2] ELSE a
                c == IF 3 * (i - 1) + 3 <= Len(pcm24k)
                     THEN pcm24k[3 * (i - 1) + 3] ELSE b
            IN  ToInt16(RoundDiv3(a + b + c))]
    IN  [i \in 1..samples8k |-> ToUint8(pcmToMuLaw(interpolated[i]))]

(***************************************************************************)
(* Bounds of the model                                                     *)
(***************************************************************************)
NumSockets == 1       \* telephony connections
MaxStarts == 2        \* 'start' events handled on one telephony connection
MaxMedia == 1         \* 'media' events handled on one telephony connection
MaxContent == 1       \* serverContent messages received for one telephony connection
MaxRelayMedia == 3    \* the same two, for a connection that handles one 'start'
MaxRelayContent == 2
MaxFrameMedia == 2    \* the same two, for a call that carries full frames
MaxFrameContent == 2
MaxApiCalls == 3      \* send operations a direct caller invokes

Sockets == 1..NumSockets
Clients == 1..(NumSockets * MaxStarts)

PCM16K == "audio/pcm;rate=16000"
PCM24K == "audio/pcm;rate=24000"

Range(seq) == {seq[i] : i \in 1..Len(seq)}

RECURSIVE SelectSeqBy(_, _)
\* the frames of seq whose kind is in kinds, in order
SelectSeqBy(seq, kinds) ==
    IF seq = <<>> THEN <<>>
    ELSE IF Head(seq).kind \in kinds
         THEN <<Head(seq)>> \o SelectSeqBy(Tail(seq), kinds)
         ELSE SelectSeqBy(Tail(seq), kinds)

(***************************************************************************)
(* Frames on the model connection (BidiRequest as JSON)                    *)
(***************************************************************************)
Frame(kind, part, role, mimeType, data, text, name, response, turnComplete) ==
    [kind |-> kind, part |-> part, role |-> role, mimeType |-> mimeType,
     data |-> data, text |-> text, name |-> name, response |-> response,
     turnComplete |-> turnComplete]

\* { setup: options.setup }
SetupRequest == Frame("setup", "", "", "", <<>>, "", "", "", FALSE)
\* { realtimeInput: realTimeData }
RealtimeInputRequest(rt) ==
    Frame("realtimeInput", rt.part, "", rt.mimeType, rt.data, rt.text, "", "", FALSE)
\* { clientContent: content }
ClientContentRequest(content) ==
    Frame("clientContent", content.part, content.role, "", <<>>, content.text,
          content.name, content.response, content.turnComplete)

AudioInput(mimeType, data) ==
    [part |-> "audio", mimeType |-> mimeType, data |-> data, text |-> ""]
TextInput(text) ==
    [part |-> "text", mimeType |-> "", data |-> <<>>, text |-> text]
UserTurn(text) ==
    [part |-> "text", role |-> "user", text |-> text, name |-> "",
     response |-> "", turnComplete |-> TRUE]
FunctionTurn(functionName, response) ==
    [part |-> "functionResponse", role |-> "function", text |-> "",
     name |-> functionName, response |-> response, turnComplete |-> TRUE]

GreetingText ==
    "Please greet the caller now. Start the conversation with a warm, professional greeting."
GreetingTurn == UserTurn(GreetingText)

(***************************************************************************)
(* GeminiLiveClient.  ws is the readyState of its WebSocket ("none": not   *)
(* constructed; "failed": an error event was delivered and only the close  *)
(* event can follow).  setupDone, readyCalls, failed, elapsed and          *)
(* elapsedLive are history fields: setupComplete was received, how often   *)
(* onReady was invoked, an error or close event was delivered, how many    *)
(* greeting delays elapsed, and how many of them elapsed before any error  *)
(* or close event.                                                         *)
(***************************************************************************)
NoClient ==
    [ws |-> "none", isReady |-> FALSE, sent |-> <<>>, timers |-> 0, owner |-> 0,
     setupDone |-> FALSE, failed |-> FALSE, elapsed |-> 0, elapsedLive |-> 0,
     readyCalls |-> 0]

\* constructor: new WebSocket(url); isReady is still undefined (falsy)
GeminiLiveClient(owner) == [NoClient EXCEPT !.ws = "connecting", !.owner = owner]

\* socket.send putting the frame ahead of the ones written before
socketSend_prepend(cl, jsonPayload) == [cl EXCEPT !.sent = <<jsonPayload>> \o @]

socketSend(cl, jsonPayload) == [cl EXCEPT !.sent = Append(@, jsonPayload)]

\* send without the readiness check
send_unguarded(cl, request) == [cl EXCEPT !.sent = Append(@, request)]

send(cl, request) ==
    IF ~cl.isReady THEN cl ELSE socketSend(cl, request)

\* sendSetup going through the readiness check of send
sendSetup_gated(cl) == send(cl, SetupRequest)

sendSetup(cl) == socketSend(cl, SetupRequest)

sendText(cl, text) == send(cl, RealtimeInputRequest(TextInput(text)))

sendRealTime(cl, realTimeData) == send(cl, RealtimeInputRequest(realTimeData))

sendRealtimeInput(cl, realTimeData) == send(cl, RealtimeInputRequest(realTimeData))

sendClientContent(cl, content) == send(cl, ClientContentRequest(content))

\* sendFunctionResponse writing to the socket itself
sendFunctionResponse_direct(cl, functionName, response) ==
    [cl EXCEPT !.sent = Append(@, ClientContentRequest(FunctionTurn(functionName, response)))]

sendFunctionResponse(cl, functionName, response) ==
    sendClientContent(cl, FunctionTurn(functionName, response))

\* socket.close(): the close event is delivered later
close(cl) ==
    IF cl.ws \in {"connecting", "open"} THEN [cl EXCEPT !.ws = "closing"] ELSE cl

\* handlerMessage sending the greeting at once, without the delay
handleSetupComplete_greetsNow(cl) ==
    [cl EXCEPT !.isReady = TRUE, !.setupDone = TRUE, !.readyCalls = @ + 1,
               !.elapsed = @ + 1, !.elapsedLive = @ + 1,
               !.sent = Append(@, ClientContentRequest(GreetingTurn))]

\* handlerMessage, setupComplete branch, up to the onReady callback
handleSetupComplete(cl) ==
    [cl EXCEPT !.isReady = TRUE, !.timers = @ + 1, !.setupDone = TRUE,
               !.readyCalls = @ + 1]

\* the setTimeout callback of handlerMessage
greetingTimeout(cl) ==
    [sendClientContent(cl, GreetingTurn) EXCEPT
        !.timers = @ - 1,
        !.elapsed = @ + 1,
        !.elapsedLive = IF cl.failed THEN @ ELSE @ + 1]

\* socket.onerror leaving isReady set
handleSocketError_keepsReady(cl) ==
    [cl EXCEPT !.ws = "failed", !.failed = TRUE]

\* socket.onerror, up to the onError callback
handleSocketError(cl) ==
    [cl EXCEPT !.isReady = FALSE, !.ws = "failed", !.failed = TRUE]

\* socket.onclose leaving isReady set
handleSocketClose_keepsReady(cl) ==
    [cl EXCEPT !.ws = "closed", !.failed = TRUE]

\* socket.onclose, up to the onClose callback
handleSocketClose(cl) ==
    [cl EXCEPT !.isReady = FALSE, !.ws = "closed", !.failed = TRUE]

(***************************************************************************)
(* Tw2GemSocket (TwilioWebSocket with the call fields).  ws is the         *)
(* readyState of the telephony WebSocket; out is what sendMedia wrote;     *)
(* webhooks is what was handed to WebhookService.processCallEvent for this *)
(* connection; born holds, for each GeminiLiveClient constructed for it,   *)
(* how many of them had been handed over by then.                          *)
(* userId is never assigned by Tw2GemServer; functionCalls is the list     *)
(* handleFunctionCalls pushes to; runs holds the invocations of            *)
(* handleFunctionCalls that are suspended at their await, each with the    *)
(* function calls it still has to handle (the awaited one first);          *)
(* executed is what was handed to FunctionCallHandler.executeFunction and  *)
(* reports what was handed to WebhookService.processFunctionCall.          *)
(* started, triggers, mediaLog, contentLog and lastSetup are               *)
(* history fields: 'start' events handled, termination triggers handled,   *)
(* the media events and serverContent messages handled, and the client     *)
(* of this connection that received setupComplete last.  received, invoked *)
(* and errors are the history of the message listener on its own: the      *)
(* messages it was handed, the handlers it invoked and the 'error' events  *)
(* it emitted (each with the number of the message); escaped is set when   *)
(* an exception left the listener; errorLive is set when a transport error *)
(* of the telephony socket is delivered while its call is started and not  *)
(* ended.                                                                  *)
(***************************************************************************)
NoSocket ==
    [ws |-> "none", callId |-> 0, callEnded |-> FALSE, twilioStreamSid |-> "",
     geminiClient |-> 0, out |-> <<>>, webhooks |-> <<>>,
     callStartTime |-> 0, born |-> <<>>,
     userId |-> "", functionCalls |-> <<>>, runs |-> <<>>,
     executed |-> <<>>, reports |-> <<>>,
     started |-> 0, triggers |-> 0, mediaLog |-> <<>>, contentLog |-> <<>>,
     lastSetup |-> 0,
     received |-> <<>>, invoked |-> <<>>, errors |-> <<>>, escaped |-> FALSE,
     errorLive |-> FALSE]

\* the stream identifier the telephony side assigned to connection s
StreamSids == <<"ST1", "ST2", "ST3">>
StreamSidOf(s) == StreamSids[s]

\* sendMedia dropping the stream identifier from the frame
sendMedia_noSid(sk, media) ==
    [sk EXCEPT !.out = Append(@, [event |-> "media", streamSid |-> "",
                                  payload |-> media.payload])]

\* TwilioWebSocket.sendMedia / sendEvent
sendMedia(sk, media) ==
    [sk EXCEPT !.out = Append(@, [event |-> "media",
                                  streamSid |-> media.streamSid,
                                  payload |-> media.payload])]

RECURSIVE sendMediaAll(_, _)
\* the for loop of onServerContent
sendMediaAll(sk, base64Mulaws) ==
    IF base64Mulaws = <<>> THEN sk
    ELSE sendMediaAll(
            sendMedia(sk, [streamSid |-> sk.twilioStreamSid,
                           payload |-> Head(base64Mulaws)]),
            Tail(base64Mulaws))

\* a part of modelTurn.parts
\* name and args are those of part.functionCall; Undefined stands for a
\* property that is absent
Undefined == [undefined |-> TRUE]
InlineData(mimeType, data) ==
    [kind |-> "inlineData", mimeType |-> mimeType, data |-> data,
     name |-> "", args |-> Undefined]
TextPart ==
    [kind |-> "text", mimeType |-> "", data |-> <<>>, name |-> "", args |-> Undefined]
\* a functionCall part with a name and arguments
FunctionCall(name, args) ==
    [kind |-> "functionCall", mimeType |-> "", data |-> <<>>,
     name |-> name, args |-> args]
\* a functionCall part without a name, which handleFunctionCalls skips
FunctionCallPart == FunctionCall("", Undefined)

\* the filter of onServerContent, applied to part.inlineData
IsPCM24kAudio(part) ==
    part.kind = "inlineData" /\ part.mimeType = PCM24K /\ part.data # <<>>

RECURSIVE Concat(_)
Concat(seqs) == IF seqs = <<>> THEN <<>> ELSE Head(seqs) \o Concat(Tail(seqs))

\* onServerContent re-buffering the audio parts of a message into one frame
onServerContent_merged(sk, serverContent) ==
    IF sk.twilioStreamSid = "" \/ sk.geminiClient = 0 \/ Len(serverContent.parts) = 0
    THEN sk
    ELSE LET inlineData == SelectSeq(serverContent.parts, IsPCM24kAudio)
             merged == Concat([i \in 1..Len(inlineData) |-> inlineData[i].data])
         IN  IF Len(inlineData) = 0 THEN sk
             ELSE sendMedia(sk, [streamSid |-> sk.twilioStreamSid,
                     payload |-> convertBase64PCM24kToBase64MuLaw8k(merged)])

\* Tw2GemServer.onServerContent; a message without modelTurn has no parts
onServerContent(sk, serverContent) ==
    IF sk.twilioStreamSid = "" \/ sk.geminiClient = 0 \/ Len(serverContent.parts) = 0
    THEN sk
    ELSE LET inlineData == SelectSeq(serverContent.parts, IsPCM24kAudio)
             base64Mulaws == [i \in 1..Len(inlineData) |->
                                convertBase64PCM24kToBase64MuLaw8k(inlineData[i].data)]
         IN  IF Len(inlineData) = 0 THEN sk ELSE sendMediaAll(sk, base64Mulaws)

\* onMedia forwarding both tracks
onMedia_anyTrack(sk, event, cl) ==
    IF sk.geminiClient = 0 \/ event.payload = <<>>
    THEN cl
    ELSE sendRealTime(cl, AudioInput(PCM16K,
                          convertBase64MuLawToBase64PCM16k(event.payload)))

\* Tw2GemServer.onMedia: the client of the connection after the handler
onMedia(sk, event, cl) ==
    IF sk.geminiClient = 0 \/ event.track # "inbound" \/ event.payload = <<>>
    THEN cl
    ELSE sendRealTime(cl, AudioInput(PCM16K,
                          convertBase64MuLawToBase64PCM16k(event.payload)))

\* handleCallEnd without the callEnded guard
handleCallEnd_noGuard(sk, outcome) ==
    IF sk.callId = 0 THEN sk
    ELSE [sk EXCEPT
            !.callEnded = TRUE,
            !.webhooks = Append(@,
                [event |-> IF outcome = "failed" THEN "call.failed" ELSE "call.completed",
                 call_id |-> sk.callId,
                 outcome |-> outcome])]

\* handleCallEnd reporting every end as completed
handleCallEnd_alwaysCompleted(sk, outcome) ==
    IF sk.callId = 0 \/ sk.callEnded THEN sk
    ELSE [sk EXCEPT
            !.callEnded = TRUE,
            !.webhooks = Append(@,
                [event |-> "call.completed",
                 call_id |-> sk.callId,
                 outcome |-> "completed"])]

\* Tw2GemServer.handleCallEnd
handleCallEnd(sk, outcome) ==
    IF sk.callId = 0 \/ sk.callEnded THEN sk
    ELSE [sk EXCEPT
            !.callEnded = TRUE,
            !.webhooks = Append(@,
                [event |-> IF outcome = "failed" THEN "call.failed" ELSE "call.completed",
                 call_id |-> sk.callId,
                 outcome |-> outcome])]

\* onStart constructing the GeminiLiveClient before it emits call.started
onStart_clientFirst(sk, event, callId, now) ==
    [sk EXCEPT
        !.callId = callId,
        !.callStartTime = now,
        !.born = Append(@, Len(sk.webhooks)),
        !.webhooks = Append(@, [event |-> "call.started", call_id |-> callId,
                                outcome |-> "in_progress", timestamp |-> now]),
        !.twilioStreamSid = event.streamSid,
        !.started = @ + 1]

\* the socket part of the onStart handler: the call fields and call.started,
\* then new GeminiLiveClient (born records how many notifications the
\* connection had emitted by then), then twilioStreamSid
onStart(sk, event, callId, now) ==
    LET announced ==
            [sk EXCEPT
                !.callId = callId,
                !.callStartTime = now,
                !.webhooks = Append(@, [event |-> "call.started", call_id |-> callId,
                                        outcome |-> "in_progress",
                                        timestamp |-> now])]
    IN  [announced EXCEPT
            !.born = Append(@, Len(announced.webhooks)),
            !.twilioStreamSid = event.streamSid,
            !.started = @ + 1]

\* WebSocket.close() on the telephony socket: the close event comes later
closeSocket(sk) ==
    IF sk.ws = "open" THEN [sk EXCEPT !.ws = "closing"] ELSE sk

\* geminiClient.onReady
onGeminiReady(sk, c) == [sk EXCEPT !.geminiClient = c, !.lastSetup = c]

\* geminiClient.onClose leaving the telephony socket open
onGeminiClose_keepsSocket(sk) ==
    [handleCallEnd(sk, "completed") EXCEPT !.triggers = @ + 1]

\* geminiClient.onClose
onGeminiClose(sk) ==
    [closeSocket(handleCallEnd(sk, "completed")) EXCEPT !.triggers = @ + 1]

\* geminiClient.onError
onGeminiError(sk) ==
    [handleCallEnd(sk, "failed") EXCEPT !.triggers = @ + 1]

\* socket.onclose keeping the client associated
onSocketClose_keepsClient(sk) ==
    [handleCallEnd(sk, "completed") EXCEPT !.ws = "closed", !.triggers = @ + 1]

\* socket.onclose installed by onStart, socket part
onSocketClose(sk) ==
    [handleCallEnd(sk, "completed") EXCEPT
        !.geminiClient = 0, !.ws = "closed", !.triggers = @ + 1]

(***************************************************************************)
(* Function calls: FunctionCallHandler and Tw2GemServer.handleFunctionCalls *)
(***************************************************************************)
\* the functions registerCoreFunctions registers, with their requiresAuth
RequiresAuth ==
    [schedule_appointment |-> TRUE, update_lead_status |-> TRUE,
     send_followup_email |-> TRUE, add_to_dnc |-> TRUE,
     get_customer_info |-> TRUE, calculate_pricing |-> FALSE,
     check_availability |-> TRUE]
RegisteredFunctions == DOMAIN RequiresAuth

\* the arguments of calculate_pricing; "" and 0 stand for an absent property
PricingArgs(service_type, quantity, customer_tier, discount_code) ==
    [service_type |-> service_type, quantity |-> quantity,
     customer_tier |-> customer_tier, discount_code |-> discount_code]

\* basePrices[args.service_type] || 100
BasePrice(service_type) ==
    CASE service_type = "consultation" -> 100
      [] service_type = "basic_service" -> 200
      [] service_type = "premium_service" -> 500
      [] service_type = "enterprise_service" -> 1000
      [] OTHER -> 100

\* tierMultipliers[args.customer_tier] || 1.0, in percent
TierPercent(customer_tier) ==
    CASE customer_tier = "standard" -> 90
      [] customer_tier = "premium" -> 80
      [] OTHER -> 100

\* handleCalculatePricing; total_price is in cents
handleCalculatePricing(args) ==
    LET basePrice == BasePrice(args.service_type)
        quantity == IF args.quantity = 0 THEN 1 ELSE args.quantity
        totalPrice == basePrice * quantity * TierPercent(args.customer_tier)
        discounted ==
            IF args.discount_code = "" THEN totalPrice
            ELSE IF args.discount_code = "SAVE10"
                 THEN (totalPrice * 9 + 5) \div 10
                 ELSE totalPrice
    IN  [service_type |-> args.service_type, quantity |-> args.quantity,
         base_price |-> basePrice,
         tier_discount |-> 100 - TierPercent(args.customer_tier),
         total_price |-> discounted, currency |-> "USD"]

\* the outcome of an awaited call: the value it returns (threw = FALSE) or
\* the message of what it throws
Outcome(threw, value) == [threw |-> threw, value |-> value]

\* await context.supabase.from(..)...; supabase is "none" if the constructor
\* was given no url or key (evaluating the query is then a TypeError),
\* otherwise how the database answers: with data ("ok"), with an error, with
\* the error code PGRST116 (no row, "notfound"), or by rejecting the request
supabaseQuery(supabase) ==
    CASE supabase = "none" ->
            Outcome(TRUE, <<"Cannot read properties of undefined (reading 'from')">>)
      [] supabase = "rejects" -> Outcome(TRUE, <<"fetch failed">>)
      [] supabase = "error" -> Outcome(FALSE, [error |-> "database error", code |-> ""])
      [] supabase = "notfound" -> Outcome(FALSE, [error |-> "no rows", code |-> "PGRST116"])
      [] OTHER -> Outcome(FALSE, [error |-> "", code |-> ""])

\* functionDef.handler(request.args, context) of the registered functions;
\* what a handler returns from the database is abstracted to the function
\* and the arguments it was computed for
callHandler(name, args, context) ==
    IF name = "calculate_pricing" THEN Outcome(FALSE, handleCalculatePricing(args))
    ELSE IF name = "send_followup_email"
    THEN Outcome(FALSE, [of |-> name, args |-> args, message |-> "queued"])
    ELSE IF context.userId = "" THEN Outcome(TRUE, <<"User ID required">>)
    ELSE LET query == supabaseQuery(context.supabase)
             \* the text before error.message in the Error thrown on a
             \* database error
             FailedTo ==
                [schedule_appointment |-> "Failed to schedule appointment: ",
                 update_lead_status |-> "Failed to update lead: ",
                 add_to_dnc |-> "Failed to add to DNC: ",
                 get_customer_info |-> "Failed to get customer info: ",
                 check_availability |-> "Failed to check availability: "]
         IN  IF name = "get_customer_info" /\ context.supabase # "none"
                    /\ args.phone_number = "" /\ args.email = ""
                    /\ args.customer_id = ""
             THEN Outcome(TRUE, <<"Phone number, email, or customer ID required">>)
             ELSE IF query.threw THEN query
             ELSE IF name = "get_customer_info" /\ query.value.code = "PGRST116"
             THEN Outcome(FALSE, [of |-> name, args |-> args,
                            message |-> "Customer not found"])
             ELSE IF query.value.error # ""
             THEN Outcome(TRUE, <<FailedTo[name], query.value.error>>)
             ELSE Outcome(FALSE, [of |-> name, args |-> args, message |-> "done"])

\* logFunctionCall letting a failure of the insert escape
logFunctionCall_uncaught(supabase, logData) ==
    LET insert == supabaseQuery(supabase)
    IN  [threw |-> insert.threw, stored |-> ~insert.threw /\ insert.value.error = ""]

\* FunctionCallHandler.logFunctionCall: a failure of the insert is caught
\* and logged to the console
logFunctionCall(supabase, logData) ==
    LET insert == supabaseQuery(supabase)
    IN  [threw |-> FALSE, stored |-> ~insert.threw /\ insert.value.error = ""]

\* FunctionCallHandler.executeFunction on a handler object: the response it
\* resolves to, whether it rejects instead (raised), and what the handler it
\* invoked did ("none" if it invoked none)
runExecuteFunction(handlerObject, request) ==
    IF request.name \notin RegisteredFunctions
    THEN [raised |-> FALSE, handler |-> "none",
          response |-> [success |-> FALSE, result |-> Undefined,
                        error |-> <<"Function '", request.name, "' not found">>]]
    ELSE IF RequiresAuth[request.name] /\ request.userId = ""
    THEN [raised |-> FALSE, handler |-> "none",
          response |-> [success |-> FALSE, result |-> Undefined,
                        error |-> <<"Authentication required for this function">>]]
    ELSE LET context == [callId |-> request.callId, userId |-> request.userId,
                         supabase |-> handlerObject.supabase]
             outcome == callHandler(request.name, request.args, context)
             logged ==
                IF handlerObject.supabase # "none" /\ request.userId # ""
                THEN logFunctionCall(handlerObject.supabase,
                        [call_id |-> request.callId, function_name |-> request.name,
                         success |-> ~outcome.threw])
                ELSE [threw |-> FALSE]
         IN  IF logged.threw
             THEN [raised |-> TRUE, handler |-> "none", response |-> Undefined]
             ELSE IF outcome.threw
             THEN [raised |-> FALSE, handler |-> "threw",
                   response |-> [success |-> FALSE, result |-> Undefined,
                                 error |-> outcome.value]]
             ELSE [raised |-> FALSE, handler |-> "returned",
                   response |-> [success |-> TRUE, result |-> outcome.value,
                                 error |-> <<>>]]

\* this.functionHandler.executeFunction(request) in handleFunctionCalls: the
\* response the promise resolves to; the Tw2GemServer was constructed
\* without database options
executeFunction(request) ==
    runExecuteFunction([supabase |-> "none"], request).response

\* the request handleFunctionCalls hands to executeFunction
FunctionRequest(sk, functionCall) ==
    [name |-> functionCall.name, args |-> functionCall.args,
     callId |-> sk.callId, userId |-> sk.userId]

\* part.functionCall of the parts that have one
FunctionCallsOf(parts) ==
    LET HasFunctionCall(part) == part.kind = "functionCall"
        calls == SelectSeq(parts, HasFunctionCall)
    IN  [i \in 1..Len(calls) |-> [name |-> calls[i].name, args |-> calls[i].args]]

\* functionCall?.name && functionCall?.args
IsDispatchable(functionCall) ==
    functionCall.name # "" /\ functionCall.args # Undefined

RECURSIVE runFunctionCalls(_, _, _)
\* the for loop of handleFunctionCalls from the call at the head of
\* functionCalls up to its next await: r is the position of this invocation
\* in sk.runs, Len(sk.runs) + 1 for one that begins
runFunctionCalls(sk, r, functionCalls) ==
    IF functionCalls = <<>>
    THEN [sk EXCEPT !.runs = SubSeq(@, 1, r - 1) \o SubSeq(@, r + 1, Len(@))]
    ELSE IF ~IsDispatchable(Head(functionCalls))
    THEN runFunctionCalls(sk, r, Tail(functionCalls))
    ELSE [sk EXCEPT
            !.functionCalls = Append(@, Head(functionCalls)),
            !.executed = Append(@, FunctionRequest(sk, Head(functionCalls))),
            !.runs = IF r > Len(@) THEN Append(@, functionCalls)
                     ELSE [@ EXCEPT ![r] = functionCalls]]

\* handleFunctionCalls starting the execution of every call of the message at
\* once, each awaited on its own
handleFunctionCalls_concurrent(sk, serverContent) ==
    LET calls == SelectSeq(FunctionCallsOf(serverContent.parts), IsDispatchable)
        started[i \in 0..Len(calls)] ==
            IF i = 0 THEN sk
            ELSE [started[i - 1] EXCEPT
                    !.functionCalls = Append(@, calls[i]),
                    !.executed = Append(@, FunctionRequest(sk, calls[i])),
                    !.runs = Append(@, <<calls[i]>>)]
    IN  started[Len(calls)]

\* handleFunctionCalls, up to its first await
handleFunctionCalls(sk, serverContent) ==
    runFunctionCalls(sk, Len(sk.runs) + 1, FunctionCallsOf(serverContent.parts))

\* what handleFunctionCalls hands to processFunctionCall after the await
FunctionReport(sk, functionCall, result) ==
    [call_id |-> sk.callId, function_name |-> functionCall.name,
     parameters |-> functionCall.args, result |-> result.result]

\* the relay of a result that answers a failure like a success
relayFunctionResult_asSuccess(cl, functionCall, result) ==
    sendFunctionResponse(cl, functionCall.name, result.result)

\* handleFunctionCalls, "Send function result back to Gemini"
relayFunctionResult(cl, functionCall, result) ==
    IF result.success
    THEN sendFunctionResponse(cl, functionCall.name, result.result)
    ELSE sendFunctionResponse(cl, functionCall.name,
                              [error |-> result.error, success |-> FALSE])

\* handleFunctionCalls leaving its loop after the first call it awaited
resumeFunctionCalls_firstOnly(sk, r, result) ==
    [sk EXCEPT
        !.reports = Append(@, FunctionReport(sk, Head(sk.runs[r]), result)),
        !.runs = SubSeq(@, 1, r - 1) \o SubSeq(@, r + 1, Len(@))]

\* handleFunctionCalls resumed by the result of the call the r-th suspended
\* invocation awaits, socket part: the report, then the rest of the loop
resumeFunctionCalls(sk, r, result) ==
    LET functionCall == Head(sk.runs[r])
        reported == [sk EXCEPT !.reports =
                        Append(@, FunctionReport(sk, functionCall, result))]
    IN  runFunctionCalls(reported, r, Tail(sk.runs[r]))

\* the onServerContent callback onStart registers on the client
onGeminiServerContent(sk, serverContent) ==
    handleFunctionCalls(onServerContent(sk, serverContent), serverContent)

(***************************************************************************)
(* Inputs                                                                  *)
(***************************************************************************)
\* the mu-law payload of the k-th media event of a connection
MediaPayload(k) == <<255 - 16 * k, 16 * k>>
\* one 20 ms telephony frame: 160 companded bytes
Payload160 == [i \in 1..160 |-> (37 * i) % 256]
\* the media events drawn as the k-th of a connection
MediaEvents(k) ==
    { [track |-> "inbound", payload |-> MediaPayload(k)],
      [track |-> "inbound", payload |-> <<>>],
      [track |-> "outbound", payload |-> MediaPayload(k)] }
\* media events that carry a full frame
FrameEvents ==
    { [track |-> "inbound", payload |-> Payload160],
      [track |-> "inbound", payload |-> <<>>],
      [track |-> "outbound", payload |-> Payload160] }

\* the 24kHz samples of the n-th audio part the model sends on a connection
PartData(n) == <<1000 * n, 1000 * n + 1, 1000 * n + 2>>
\* one model audio part of 480 samples at 24kHz
Part480 == [i \in 1..480 |-> ((i * 613) % 65536) - 32768]

\* the serverContent messages the model sends as its k-th message; none
\* carries a functionCall with a name, so handleFunctionCalls has nothing to
\* execute
ServerContents(k) ==
    { [parts |-> <<InlineData(PCM24K, PartData(2 * k - 1)),
                   InlineData(PCM24K, PartData(2 * k))>>],
      [parts |-> <<InlineData(PCM16K, PartData(2 * k - 1)), TextPart,
                   InlineData(PCM24K, <<>>), FunctionCallPart,
                   InlineData(PCM24K, PartData(2 * k))>>],
      [parts |-> <<>>] }
\* serverContent messages with a part of 480 samples
FrameContents(k) ==
    { [parts |-> <<InlineData(PCM24K, Part480)>>],
      [parts |-> <<InlineData(PCM16K, Part480), TextPart, FunctionCallPart,
                   InlineData(PCM24K, Part480), InlineData(PCM24K, PartData(1))>>] }

Texts == <<"t1", "t2", "t3", "t4", "t5">>

(***************************************************************************)
(* State                                                                   *)
(***************************************************************************)
BridgeInit ==
    /\ socket = [s \in Sockets |-> NoSocket]
    /\ client = [c \in Clients |-> NoClient]
    /\ callSeq = 0
    /\ apiCalls = {}

Init ==
    /\ codecOp = "input"
    /\ codecIn = 0
    /\ codecOut = 0
    /\ BridgeInit

Constructed == {c \in Clients : client[c].ws # "none"}
FreeClient == CHOOSE c \in Clients \ Constructed : \A d \in Clients \ Constructed : c <= d

\* readyStates in which the transport still delivers messages
Delivering == {"open", "closing"}

ClientsOf(s) == {c \in Clients : client[c].ws # "none" /\ client[c].owner = s}

(***************************************************************************)
(* Telephony side: TwilioWebSocketServer dispatching to Tw2GemServer       *)
(***************************************************************************)
\* 'connection' on the listener
TwilioConnection(s) ==
    /\ socket[s].ws = "none"
    /\ \A r \in Sockets : r < s => socket[r].ws # "none"
    /\ socket' = [socket EXCEPT ![s].ws = "open"]
    /\ UNCHANGED <<client, callSeq, apiCalls, codecVars>>

\* the reading of the clock: it advances with every 'start' handled
Now == callSeq + 1

\* onStart using one GeminiLiveClient for all connections
TwilioStart_sharedClient(s, maxStarts) ==
    /\ socket[s].ws \in Delivering
    /\ socket[s].started < maxStarts
    /\ Clients \ Constructed # {}
    /\ LET event == [streamSid |-> StreamSidOf(s)]
           shared == IF Constructed = {} THEN FreeClient
                     ELSE CHOOSE c \in Constructed : TRUE
       IN  /\ socket' = [socket EXCEPT ![s] = onStart(@, event, callSeq + 1, Now)]
           /\ client' = [client EXCEPT ![shared] = GeminiLiveClient(s)]
           /\ callSeq' = callSeq + 1
    /\ UNCHANGED <<apiCalls, codecVars>>

\* socket.onmessage, case 'start'
TwilioStart(s, maxStarts) ==
    /\ socket[s].ws \in Delivering
    /\ socket[s].started < maxStarts
    /\ Clients \ Constructed # {}
    /\ LET event == [streamSid |-> StreamSidOf(s)]
       IN  /\ socket' = [socket EXCEPT ![s] = onStart(@, event, callSeq + 1, Now)]
           /\ client' = [client EXCEPT ![FreeClient] = GeminiLiveClient(s)]
           /\ callSeq' = callSeq + 1
    /\ UNCHANGED <<apiCalls, codecVars>>

\* the client of connection s that a media event handled now reaches, by
\* the history of the connection: the one that received setupComplete last,
\* unless an error or close event was delivered on it since
MediaTarget(s) ==
    IF socket[s].lastSetup # 0 /\ ~client[socket[s].lastSetup].failed
    THEN socket[s].lastSetup ELSE 0

\* socket.onmessage, case 'media'
TwilioMediaFrom(s, maxMedia, events) ==
    /\ socket[s].ws \in Delivering
    /\ Len(socket[s].mediaLog) < maxMedia
    /\ \E event \in events :
        LET sk == socket[s]
            g  == sk.geminiClient
        IN  /\ client' = IF g = 0 THEN client
                         ELSE [client EXCEPT ![g] = onMedia(sk, event, @)]
            /\ socket' = [socket EXCEPT ![s].mediaLog =
                            Append(@, [track |-> event.track,
                                       payload |-> event.payload,
                                       to |-> MediaTarget(s)])]
    /\ UNCHANGED <<callSeq, apiCalls, codecVars>>

\* socket.onerror of the listener (onStart installs no other): a transport
\* error of the telephony socket, after which only its close event follows
onSocketError(sk) ==
    [sk EXCEPT !.ws = "failed",
               !.errorLive = @ \/ (sk.callId # 0 /\ ~sk.callEnded)]

\* the error event of the telephony socket
TwilioError(s) ==
    /\ socket[s].ws \in {"open", "closing"}
    /\ socket' = [socket EXCEPT ![s] = onSocketError(@)]
    /\ UNCHANGED <<client, callSeq, apiCalls, codecVars>>

TwilioMedia(s, maxMedia) ==
    TwilioMediaFrom(s, maxMedia, MediaEvents(Len(socket[s].mediaLog) + 1))

\* the close event of the telephony socket: the handler onStart installed,
\* or the listener's own when no 'start' was handled
TwilioClose(s) ==
    /\ socket[s].ws \in {"open", "closing", "failed"}
    /\ LET sk == socket[s]
           g  == sk.geminiClient
       IN  IF sk.started > 0
           THEN /\ socket' = [socket EXCEPT ![s] = onSocketClose(sk)]
                /\ client' = IF g = 0 THEN client
                             ELSE [client EXCEPT ![g] = close(@)]
           ELSE /\ socket' = [socket EXCEPT ![s].ws = "closed"]
                /\ UNCHANGED client
    /\ UNCHANGED <<callSeq, apiCalls, codecVars>>

(***************************************************************************)
(* Model side: the WebSocket events of a GeminiLiveClient, each with the   *)
(* callback Tw2GemServer registered (a client without owner has none)      *)
(***************************************************************************)
\* socket.onopen
GeminiOpen(c) ==
    /\ client[c].ws = "connecting"
    /\ client' = [client EXCEPT ![c] = [sendSetup(@) EXCEPT !.ws = "open"]]
    /\ UNCHANGED <<socket, callSeq, apiCalls, codecVars>>

\* socket.onmessage with { setupComplete: {} }, sent once per connection
GeminiSetupComplete(c) ==
    /\ client[c].ws \in Delivering
    /\ client[c].sent # <<>>
    /\ ~client[c].setupDone
    /\ client' = [client EXCEPT ![c] = handleSetupComplete(@)]
    /\ socket' = IF client[c].owner = 0 THEN socket
                 ELSE [socket EXCEPT ![client[c].owner] = onGeminiReady(@, c)]
    /\ UNCHANGED <<callSeq, apiCalls, codecVars>>

\* socket.onmessage with { serverContent }, which follows setupComplete
\* contents[k]: the messages drawn as the k-th of the connection
GeminiServerContentFrom(c, maxContent, contents) ==
    /\ client[c].ws \in Delivering
    /\ client[c].setupDone
    /\ client[c].owner # 0
    /\ LET s == client[c].owner
           k == Len(socket[s].contentLog) + 1
       IN  /\ k <= maxContent
           /\ \E serverContent \in contents[k] :
                socket' = [socket EXCEPT ![s] =
                    [onGeminiServerContent(@, serverContent) EXCEPT
                        !.contentLog = Append(@,
                            [parts |-> serverContent.parts,
                             live |-> socket[s].geminiClient # 0,
                             open |-> socket[s].ws = "open"])]]
    /\ UNCHANGED <<client, callSeq, apiCalls, codecVars>>

GeminiServerContent(c, maxContent) ==
    GeminiServerContentFrom(c, maxContent,
                            [k \in 1..maxContent |-> ServerContents(k)])

\* the setTimeout callback, 100 ms after setupComplete
GreetingTimer(c) ==
    /\ client[c].timers > 0
    /\ client' = [client EXCEPT ![c] = greetingTimeout(@)]
    /\ UNCHANGED <<socket, callSeq, apiCalls, codecVars>>

\* socket.onerror
GeminiError(c) ==
    /\ client[c].ws \in {"connecting", "open", "closing"}
    /\ client' = [client EXCEPT ![c] = handleSocketError(@)]
    /\ socket' = IF client[c].owner = 0 THEN socket
                 ELSE [socket EXCEPT ![client[c].owner] = onGeminiError(@)]
    /\ UNCHANGED <<callSeq, apiCalls, codecVars>>

\* socket.onclose
GeminiClose(c) ==
    /\ client[c].ws \in {"open", "closing", "failed"}
    /\ client' = [client EXCEPT ![c] = handleSocketClose(@)]
    /\ socket' = IF client[c].owner = 0 THEN socket
                 ELSE [socket EXCEPT ![client[c].owner] = onGeminiClose(@)]
    /\ UNCHANGED <<callSeq, apiCalls, codecVars>>

Next ==
    \/ \E s \in Sockets : TwilioConnection(s)
    \/ \E s \in Sockets : TwilioStart(s, MaxStarts)
    \/ \E s \in Sockets : TwilioMedia(s, MaxMedia)
    \/ \E s \in Sockets : TwilioError(s)
    \/ \E s \in Sockets : TwilioClose(s)
    \/ \E c \in Clients : GeminiOpen(c)
    \/ \E c \in Clients : GeminiSetupComplete(c)
    \/ \E c \in Clients : GeminiServerContent(c, MaxContent)
    \/ \E c \in Clients : GreetingTimer(c)
    \/ \E c \in Clients : GeminiError(c)
    \/ \E c \in Clients : GeminiClose(c)

Spec == Init /\ [][Next]_vars

\* one call per connection (a single 'start'), with more traffic
RelayNext ==
    \/ \E s \in Sockets : TwilioConnection(s)
    \/ \E s \in Sockets : TwilioStart(s, 1)
    \/ \E s \in Sockets : TwilioMedia(s, MaxRelayMedia)
    \/ \E s \in Sockets : TwilioClose(s)
    \/ \E c \in Clients : GeminiOpen(c)
    \/ \E c \in Clients : GeminiSetupComplete(c)
    \/ \E c \in Clients : GeminiServerContent(c, MaxRelayContent)
    \/ \E c \in Clients : GreetingTimer(c)
    \/ \E c \in Clients : GeminiError(c)
    \/ \E c \in Clients : GeminiClose(c)

RelaySpec == Init /\ [][RelayNext]_vars

\* one call per connection, carrying full frames
FrameNext ==
    \/ \E s \in Sockets : TwilioConnection(s)
    \/ \E s \in Sockets : TwilioStart(s, 1)
    \/ \E s \in Sockets : TwilioMediaFrom(s, MaxFrameMedia, FrameEvents)
    \/ \E s \in Sockets : TwilioClose(s)
    \/ \E c \in Clients : GeminiOpen(c)
    \/ \E c \in Clients : GeminiSetupComplete(c)
    \/ \E c \in Clients : GeminiServerContentFrom(c, MaxFrameContent,
                                [k \in 1..MaxFrameContent |-> FrameContents(k)])
    \/ \E c \in Clients : GreetingTimer(c)
    \/ \E c \in Clients : GeminiError(c)
    \/ \E c \in Clients : GeminiClose(c)

FrameSpec == Init /\ [][FrameNext]_vars

(***************************************************************************)
(* GeminiLiveClient used directly: a caller constructs a client, registers *)
(* no callback and invokes the public operations at any time.  Each call   *)
(* carries a text or sample of its own, so its frame is recognisable, and  *)
(* is recorded in apiCalls with the readiness it found.                    *)
(***************************************************************************)
ApiCall(c, op, request) ==
    [n |-> Cardinality(apiCalls) + 1, op |-> op, client |-> c,
     ready |-> client[c].isReady, request |-> request]

ApiText == Texts[Cardinality(apiCalls) + 1]
ApiAudio == AudioInput(PCM16K, <<Cardinality(apiCalls) + 1>>)

ApiCanCall(c) ==
    /\ client[c].ws # "none"
    /\ Cardinality(apiCalls) < MaxApiCalls

ApiNewClient ==
    /\ Constructed = {}
    /\ client' = [client EXCEPT ![FreeClient] = GeminiLiveClient(0)]
    /\ UNCHANGED <<socket, callSeq, apiCalls, codecVars>>

ApiSendText(c) ==
    /\ ApiCanCall(c)
    /\ client' = [client EXCEPT ![c] = sendText(@, ApiText)]
    /\ apiCalls' = apiCalls \cup
            {ApiCall(c, "sendText", RealtimeInputRequest(TextInput(ApiText)))}
    /\ UNCHANGED <<socket, callSeq, codecVars>>

ApiSendRealTime(c) ==
    /\ ApiCanCall(c)
    /\ client' = [client EXCEPT ![c] = sendRealTime(@, ApiAudio)]
    /\ apiCalls' = apiCalls \cup
            {ApiCall(c, "sendRealTime", RealtimeInputRequest(ApiAudio))}
    /\ UNCHANGED <<socket, callSeq, codecVars>>

ApiSendRealtimeInput(c) ==
    /\ ApiCanCall(c)
    /\ client' = [client EXCEPT ![c] = sendRealtimeInput(@, ApiAudio)]
    /\ apiCalls' = apiCalls \cup
            {ApiCall(c, "sendRealtimeInput", RealtimeInputRequest(ApiAudio))}
    /\ UNCHANGED <<socket, callSeq, codecVars>>

ApiSendClientContent(c) ==
    /\ ApiCanCall(c)
    /\ client' = [client EXCEPT ![c] = sendClientContent(@, UserTurn(ApiText))]
    /\ apiCalls' = apiCalls \cup
            {ApiCall(c, "sendClientContent", ClientContentRequest(UserTurn(ApiText)))}
    /\ UNCHANGED <<socket, callSeq, codecVars>>

ApiSendFunctionResponse(c) ==
    /\ ApiCanCall(c)
    /\ client' = [client EXCEPT ![c] = sendFunctionResponse(@, ApiText, "ok")]
    /\ apiCalls' = apiCalls \cup
            {ApiCall(c, "sendFunctionResponse",
                     ClientContentRequest(FunctionTurn(ApiText, "ok")))}
    /\ UNCHANGED <<socket, callSeq, codecVars>>

ApiClose(c) ==
    /\ client[c].ws \in {"connecting", "open"}
    /\ client' = [client EXCEPT ![c] = close(@)]
    /\ UNCHANGED <<socket, callSeq, apiCalls, codecVars>>

ClientNext ==
    \/ ApiNewClient
    \/ \E c \in Clients : GeminiOpen(c)
    \/ \E c \in Clients : GeminiSetupComplete(c)
    \/ \E c \in Clients : GreetingTimer(c)
    \/ \E c \in Clients : GeminiError(c)
    \/ \E c \in Clients : GeminiClose(c)
    \/ \E c \in Clients : ApiSendText(c)
    \/ \E c \in Clients : ApiSendRealTime(c)
    \/ \E c \in Clients : ApiSendRealtimeInput(c)
    \/ \E c \in Clients : ApiSendClientContent(c)
    \/ \E c \in Clients : ApiSendFunctionResponse(c)
    \/ \E c \in Clients : ApiClose(c)

ClientSpec == Init /\ [][ClientNext]_vars

(***************************************************************************)
(* Properties                                                              *)
(***************************************************************************)
Count(seq, Test(_)) == Len(SelectSeq(seq, Test))

IsCompletion(w) == w.event \in {"call.completed", "call.failed"}
Completions(s) == Count(socket[s].webhooks, IsCompletion)

IsRealtimeInput(f) == f.kind = "realtimeInput"
IsGreeting(f) ==
    f.kind = "clientContent" /\ f.role = "user" /\ f.text = GreetingText
        /\ f.turnComplete
Greetings(c) == Count(client[c].sent, IsGreeting)

\* C1: on a connection on which 'start' was handled, the termination
\* triggers (model close, model error, telephony close) emit exactly one
\* completion notification between them: one once the first trigger was
\* handled, none before, and no later trigger adds another.
C1_OneCompletion ==
    \A s \in Sockets :
        /\ Completions(s) = IF socket[s].triggers > 0 THEN 1 ELSE 0
        /\ socket[s].triggers > 0 => socket[s].started > 0

\* C1 witness: three triggers were handled and one completion was emitted
C1_Witness ==
    \E s \in Sockets : socket[s].triggers >= 3 /\ Completions(s) = 1

\* the media events of connection s that reached client c (by the history
\* of the connection: c had received setupComplete and no error or close)
ReachedClient(s, c) ==
    LET Reached(e) == e.to = c IN SelectSeq(socket[s].mediaLog, Reached)

\* C2: a realtimeInput frame is on a model connection only if the
\* connection has received setupComplete, and the connection holds no more
\* such frames than media events were handled while it was ready: media
\* handled before readiness never reaches the model.
C2_AudioOnlyWhenReady ==
    \A c \in Clients :
        LET n == Count(client[c].sent, IsRealtimeInput)
        IN  /\ n > 0 => client[c].setupDone /\ client[c].owner # 0
            /\ client[c].owner # 0 =>
                    n <= Len(ReachedClient(client[c].owner, c))

\* C2 witness: a media event was handled before readiness and dropped, a
\* later one was forwarded
C2_Witness ==
    \E s \in Sockets : \E c \in Clients :
        /\ Len(socket[s].mediaLog) >= 2
        /\ socket[s].mediaLog[1].to = 0
        /\ socket[s].mediaLog[1].track = "inbound"
        /\ socket[s].mediaLog[1].payload # <<>>
        /\ socket[s].mediaLog[2].to = c
        /\ Count(client[c].sent, IsRealtimeInput) = 1

\* a request whose send was invoked while not ready is on no transport
C3_DroppedNeverWritten ==
    \A k \in apiCalls :
        ~k.ready => k.request \notin Range(client[k.client].sent)

\* a send invoked while not ready leaves the client record as it was
C3_NotReadyUnchanged ==
    \A k \in apiCalls' \ apiCalls :
        ~k.ready => client'[k.client] = client[k.client]

\* C3: a send operation invoked while the client is not ready writes no
\* frame, then or later, and leaves the client as it was.
C3_SendWhileNotReadyIsNoOp ==
    [](C3_DroppedNeverWritten) /\ [][C3_NotReadyUnchanged]_vars

\* C3 witness: a send was dropped before setupComplete, another after a
\* transport error, and the client wrote a frame of a later send in between
C3_Witness ==
    \E k1, k2, k3 \in apiCalls :
        /\ k1.n < k2.n /\ k2.n < k3.n
        /\ ~k1.ready /\ k2.ready /\ ~k3.ready
        /\ k2.request \in Range(client[k2.client].sent)
        /\ client[k3.client].ws \in {"failed", "closed"}

\* C4: an outbound media frame is on a telephony connection only after its
\* 'start' event set the stream identifier, and every such frame carries
\* the connection's stream identifier.
C4_OutboundCarriesStreamSid ==
    \A s \in Sockets :
        \A i \in 1..Len(socket[s].out) :
            /\ socket[s].started > 0
            /\ socket[s].out[i].streamSid # ""
            /\ socket[s].out[i].streamSid = socket[s].twilioStreamSid
            /\ socket[s].out[i].streamSid = StreamSidOf(s)

\* C4 witness: two outbound frames were written
C4_Witness ==
    \E s \in Sockets : Len(socket[s].out) >= 2

\* what the media events that reached c are, upsampled, in arrival order
ExpectedAudio(s, c) ==
    LET Forwarded(e) == e.to = c /\ e.track = "inbound" /\ e.payload # <<>>
        es == SelectSeq(socket[s].mediaLog, Forwarded)
    IN  [i \in 1..Len(es) |-> convertBase64MuLawToBase64PCM16k(es[i].payload)]

Is24kPart(part) ==
    part.kind = "inlineData" /\ part.mimeType = PCM24K /\ Len(part.data) > 0

RECURSIVE ExpectedOut(_)
\* the 24kHz audio parts of the messages handled on a live call, downsampled,
\* message after message and part after part
ExpectedOut(log) ==
    IF log = <<>> THEN <<>>
    ELSE LET ps == SelectSeq(Head(log).parts, Is24kPart)
             here == IF Head(log).live
                     THEN [i \in 1..Len(ps) |->
                            convertBase64PCM24kToBase64MuLaw8k(ps[i].data)]
                     ELSE <<>>
         IN  here \o ExpectedOut(Tail(log))

AudioOf(c) ==
    LET fs == SelectSeq(client[c].sent, IsRealtimeInput)
    IN  [i \in 1..Len(fs) |-> fs[i].data]

PayloadsOf(s) == [i \in 1..Len(socket[s].out) |-> socket[s].out[i].payload]

\* C5: order is preserved both ways: the realtimeInput frames on a model
\* connection are the media events that reached it, in their order of
\* arrival, and the outbound media frames are the 24kHz parts received on
\* the live call, in their order across messages and within a message.
C5_OrderPreserved ==
    /\ \A c \in Clients :
            client[c].owner # 0 => AudioOf(c) = ExpectedAudio(client[c].owner, c)
    /\ \A s \in Sockets : PayloadsOf(s) = ExpectedOut(socket[s].contentLog)

\* C5 witness: three media events A, B, C were forwarded and three parts
\* (two of one message, one of the next) were written out
C5_Witness ==
    \E s \in Sockets : \E c \in Clients :
        /\ client[c].owner = s
        /\ Len(AudioOf(c)) = 3
        /\ AudioOf(c)[1] # AudioOf(c)[2] /\ AudioOf(c)[2] # AudioOf(c)[3]
        /\ Len(socket[s].out) = 3
        /\ socket[s].out[1].payload # socket[s].out[2].payload
        /\ socket[s].out[2].payload # socket[s].out[3].payload

\* C6 as claimed: once the delay of a connection that received
\* setupComplete has elapsed, exactly one greeting turn is on it, whatever
\* happened in the meantime.
C6_ExactlyOneGreeting ==
    \A c \in Clients :
        (client[c].setupDone /\ client[c].elapsed >= 1) => Greetings(c) = 1

\* C6 amended: at most one greeting turn is written per connection; it is
\* written when the delay elapses if no transport error or close event was
\* delivered before, and not at all otherwise.
C6_GreetingUnlessFailed ==
    \A c \in Clients :
        /\ Greetings(c) <= 1
        /\ client[c].elapsed <= 1
        /\ Greetings(c) = client[c].elapsedLive

\* C6 witness: the delay elapsed on a live connection, which holds the
\* greeting after the setup frame, and the connection failed afterwards
C6_Witness ==
    \E c \in Clients :
        /\ client[c].elapsedLive = 1
        /\ Greetings(c) = 1
        /\ client[c].failed

\* a step that writes a greeting starts from a ready connection
C7_GreetingStep ==
    \A c \in Clients :
        Greetings(c)' > Greetings(c) =>
            /\ client[c].setupDone
            /\ client[c].isReady
            /\ client[c].readyCalls >= 1

\* C7: a greeting turn is written only on a connection that has already
\* received setupComplete, been marked ready and fired onReady.
C7_GreetingAfterReady == [][C7_GreetingStep]_vars

\* C7 witness: a greeting follows the setup frame on a connection whose
\* onReady associated it with its telephony connection
C7_Witness ==
    \E c \in Clients :
        /\ Len(client[c].sent) >= 2
        /\ client[c].sent[1] = SetupRequest
        /\ IsGreeting(client[c].sent[2])
        /\ client[c].owner # 0
        /\ socket[client[c].owner].lastSetup = c
(***************************************************************************)
(* The codec applied to every input: Init draws the argument, one action   *)
(* per function applies it.                                                *)
(***************************************************************************)
CodecInit ==
    /\ codecOp = "input"
    /\ codecIn \in Int16
    /\ codecOut = 0
    /\ BridgeInit

ApplyMuLawToPCM ==
    /\ codecOp = "input"
    /\ codecIn \in Bytes
    /\ codecOp' = "muLawToPCM"
    /\ codecOut' = muLawToPCM(codecIn)
    /\ UNCHANGED <<codecIn, bridgeVars>>

ApplyPcmToMuLaw ==
    /\ codecOp = "input"
    /\ codecOp' = "pcmToMuLaw"
    /\ codecOut' = pcmToMuLaw(codecIn)
    /\ UNCHANGED <<codecIn, bridgeVars>>

\* pcmToMuLaw applied to the value muLawToPCM returned
ApplyRoundTrip ==
    /\ codecOp = "muLawToPCM"
    /\ codecOp' = "roundTrip"
    /\ codecOut' = pcmToMuLaw(codecOut)
    /\ UNCHANGED <<codecIn, bridgeVars>>

CodecNext ==
    \/ ApplyMuLawToPCM
    \/ ApplyPcmToMuLaw
    \/ ApplyRoundTrip

CodecSpec == CodecInit /\ [][CodecNext]_vars

(***************************************************************************)
(* G.711 mu-law, stated arithmetically (no bit operations).                *)
(***************************************************************************)
\* decoder: sign s, exponent e, mantissa m of the inverted byte
G711Decode(u) ==
    LET inv == 255 - u
        s   == inv \div 128
        e   == (inv \div 16) % 8
        m   == inv % 16
        mag == (8 * m + 132) * Pow2(e) - 132
    IN  IF s = 1 THEN -mag ELSE mag

\* encoder: the segment e is the one whose range holds the biased magnitude
G711Encode(x) ==
    LET s    == IF x < 0 THEN 1 ELSE 0
        abs  == IF x < 0 THEN -x ELSE x
        mag  == (IF abs > 32635 THEN 32635 ELSE abs) + 132
        e    == CHOOSE k \in 0..7 : Pow2(k + 7) <= mag /\ mag < Pow2(k + 8)
        m    == (mag \div Pow2(e + 3)) % 16
    IN  255 - (128 * s + 16 * e + m)

\* C8: decompand then recompand is the identity on companded samples:
\* pcmToMuLaw(muLawToPCM(u)) = u for every byte u other than the
\* negative-zero code 0x7F.
C8_RoundTripIdentity ==
    (codecOp = "roundTrip" /\ codecIn # 127) => codecOut = codecIn

\* C9: muLawToPCM(u) equals the standard G.711 mu-law decoder output for
\* every byte u: magnitude (((m << 3) + 0x84) << e) - 0x84, negated when the
\* sign bit of the inverted byte is set.
C9_DecodeIsG711 ==
    codecOp = "muLawToPCM" => codecOut = G711Decode(codecIn)

\* C10: pcmToMuLaw(x) equals the standard G.711 mu-law encoder output for
\* every signed 16-bit sample x, and is always a byte in 0..255.
C10_EncodeIsG711 ==
    codecOp = "pcmToMuLaw" =>
        /\ codecOut = G711Encode(codecIn)
        /\ codecOut \in Bytes

\* C10 witness: the most negative sample is clipped and encodes to 0x00
C10_Witness ==
    codecOp = "pcmToMuLaw" /\ codecIn = -32768 /\ codecOut = 0

(***************************************************************************)
(* The two resampling conversions applied to payloads: Init draws the      *)
(* payload, one action per conversion applies it.                          *)
(***************************************************************************)
MaxBytes == 3         \* companded bytes of a drawn telephony payload
MaxSamples == 5       \* 16-bit samples of a drawn model audio part

ByteValues == {0, 32, 127, 128, 255}
SampleValues == {-32768, -2, 1000, 32767}

RECURSIVE SeqsUpTo(_, _)
\* the sequences over S of length 0..n
SeqsUpTo(S, n) ==
    IF n = 0 THEN {<<>>}
    ELSE LET shorter == SeqsUpTo(S, n - 1)
         IN  shorter \cup {Append(q, x) : q \in shorter, x \in S}

MuLawPayloads == SeqsUpTo(ByteValues, MaxBytes) \cup {Payload160}
PCM24kPayloads == SeqsUpTo(SampleValues, MaxSamples) \cup {Part480}

ConvInit ==
    /\ codecOp = "input"
    /\ codecIn \in [kind : {"mulaw8k"}, data : MuLawPayloads]
                   \cup [kind : {"pcm24k"}, data : PCM24kPayloads]
    /\ codecOut = <<>>
    /\ BridgeInit

ApplyUpsample ==
    /\ codecOp = "input"
    /\ codecIn.kind = "mulaw8k"
    /\ codecOp' = "upsample"
    /\ codecOut' = convertBase64MuLawToBase64PCM16k(codecIn.data)
    /\ UNCHANGED <<codecIn, bridgeVars>>

ApplyDownsample ==
    /\ codecOp = "input"
    /\ codecIn.kind = "pcm24k"
    /\ codecOp' = "downsample"
    /\ codecOut' = convertBase64PCM24kToBase64MuLaw8k(codecIn.data)
    /\ UNCHANGED <<codecIn, bridgeVars>>

ConvNext ==
    \/ ApplyUpsample
    \/ ApplyDownsample

ConvSpec == ConvInit /\ [][ConvNext]_vars

\* C11: upsampling n companded bytes returns exactly 2n samples, with
\* out[2i] = out[2i+1] = muLawToPCM(in[i]) (zero-order hold); 160 bytes give
\* 320 samples.
C11_UpsampleDoubles ==
    codecOp = "upsample" =>
        LET in == codecIn.data
        IN  /\ Len(codecOut) = 2 * Len(in)
            /\ \A i \in 1..Len(in) :
                /\ codecOut[2 * i - 1] = muLawToPCM(in[i])
                /\ codecOut[2 * i] = muLawToPCM(in[i])
            /\ \A j \in 1..Len(codecOut) : codecOut[j] \in Int16

\* C11 witness: the 160-byte frame was upsampled to 320 samples
C11_Witness ==
    /\ codecOp = "upsample"
    /\ Len(codecIn.data) = 160
    /\ Len(codecOut) = 320

\* the run of three that starts at sample 3i+1, a partial run completed by
\* repeating its last sample
PaddedRun(in, i) ==
    LET a == in[3 * i + 1]
        b == IF 3 * i + 2 <= Len(in) THEN in[3 * i + 2] ELSE a
        c == IF 3 * i + 3 <= Len(in) THEN in[3 * i + 3] ELSE b
    IN  <<a, b, c>>

\* C12: downsampling pads a trailing partial run: an input whose sample
\* count is not a multiple of three yields one more byte for the final run of
\* one or two samples, completed by repeating its last sample, so no input
\* sample is discarded.
C12_PartialRunPadded ==
    codecOp = "downsample" =>
        LET in == codecIn.data
            runs == (Len(in) + 2) \div 3
        IN  /\ Len(codecOut) = runs
            /\ \A i \in 0..(runs - 1) :
                LET r == PaddedRun(in, i)
                IN  codecOut[i + 1] =
                        pcmToMuLaw(ToInt16(RoundDiv3(r[1] + r[2] + r[3])))
(***************************************************************************)
(* TwilioWebSocketServer on its own: the message listener dispatching to   *)
(* registered handlers.  A message is the text of the frame: empty, text   *)
(* that is not JSON, the JSON value null, or a JSON object with or without *)
(* an event field.  The handler is what options.handlers holds for the     *)
(* event when the message arrives: no handlers object at all, no handler   *)
(* for the event, a handler that returns, or a handler that throws.        *)
(***************************************************************************)
NumConnections == 2   \* telephony connections of the listener
MaxMessages == 3      \* messages the listener is handed, all connections together

Connections == 1..NumConnections

TwilioEventNames == {"connected", "start", "media", "stop", "dtmf", "mark"}

Message(data, event) == [data |-> data, event |-> event]

HandlerKinds == {"nohandlers", "none", "returns", "throws"}

\* the (message, handler) pairs drawn
Dispatches ==
    {[message |-> Message(d, ""), handler |-> "returns"] :
        d \in {"empty", "notjson", "null", "object"}}
    \cup {[message |-> Message("object", "ping"), handler |-> h] :
            h \in {"returns", "throws"}}
    \cup {[message |-> Message("object", e), handler |-> h] :
            e \in TwilioEventNames, h \in {"none", "returns", "throws"}}
    \cup {[message |-> Message("object", "start"), handler |-> "nohandlers"]}

\* socket.emit('error', error) -> socket.onerror -> this.onError?.(socket, event)
emitError(sk, n, cause) ==
    [sk EXCEPT !.errors = Append(@, [n |-> n, cause |-> cause])]

\* options.handlers.on<Event>?.(socket, twilioObject)
invokeHandler(sk, n, event, handler) ==
    IF handler = "none" THEN [sk |-> sk, threw |-> FALSE]
    ELSE [sk |-> [sk EXCEPT !.invoked = Append(@, [n |-> n, event |-> event])],
          threw |-> handler = "throws"]

\* the try block with a default case that invokes the handler
dispatch_default(sk, n, message, handler) ==
    IF handler = "nohandlers" THEN [sk |-> sk, threw |-> FALSE]
    ELSE IF message.data = "empty" THEN [sk |-> sk, threw |-> FALSE]
    ELSE IF message.data \in {"notjson", "null"} THEN [sk |-> sk, threw |-> TRUE]
    ELSE invokeHandler(sk, n, message.event, handler)

\* the try block of socket.onmessage
dispatch(sk, n, message, handler) ==
    IF handler = "nohandlers" THEN [sk |-> sk, threw |-> FALSE]
    ELSE IF message.data = "empty" THEN [sk |-> sk, threw |-> FALSE]
    ELSE IF message.data = "notjson" THEN [sk |-> sk, threw |-> TRUE]
    ELSE IF message.data = "null" THEN [sk |-> sk, threw |-> TRUE]
    ELSE IF message.event \in TwilioEventNames
         THEN invokeHandler(sk, n, message.event, handler)
         ELSE [sk |-> sk, threw |-> FALSE]

\* socket.onmessage without the catch: the exception leaves the listener
onmessage_noCatch(sk, message, handler) ==
    LET n == Len(sk.received) + 1
        r == dispatch([sk EXCEPT !.received =
                        Append(@, [message |-> message, handler |-> handler])],
                      n, message, handler)
    IN  IF r.threw THEN [r.sk EXCEPT !.escaped = TRUE] ELSE r.sk

\* socket.onmessage
onmessage(sk, message, handler) ==
    LET n == Len(sk.received) + 1
        r == dispatch([sk EXCEPT !.received =
                        Append(@, [message |-> message, handler |-> handler])],
                      n, message, handler)
        cause == IF message.data \in {"notjson", "null"} THEN "parse" ELSE "handler"
    IN  IF r.threw THEN emitError(r.sk, n, cause) ELSE r.sk

RECURSIVE SumReceived(_)
SumReceived(S) ==
    IF S = {} THEN 0
    ELSE LET s == CHOOSE x \in S : TRUE
         IN  Len(socket[s].received) + SumReceived(S \ {s})

\* an exception that left a listener ends the process
ListenerAlive == \A s \in Connections : ~socket[s].escaped

DispatchInit ==
    /\ codecOp = "input"
    /\ codecIn = 0
    /\ codecOut = 0
    /\ socket = [s \in Connections |-> NoSocket]
    /\ client = [c \in Clients |-> NoClient]
    /\ callSeq = 0
    /\ apiCalls = {}

\* 'connection' on the listener
DispatchConnection(s) ==
    /\ ListenerAlive
    /\ socket[s].ws = "none"
    /\ \A r \in Connections : r < s => socket[r].ws # "none"
    /\ socket' = [socket EXCEPT ![s].ws = "open"]
    /\ UNCHANGED <<client, callSeq, apiCalls, codecVars>>

\* a message event of connection s
TwilioMessage(s) ==
    /\ ListenerAlive
    /\ socket[s].ws \in Delivering
    /\ SumReceived(Connections) < MaxMessages
    /\ \E d \in Dispatches :
        socket' = [socket EXCEPT ![s] = onmessage(@, d.message, d.handler)]
    /\ UNCHANGED <<client, callSeq, apiCalls, codecVars>>

DispatchNext ==
    \/ \E s \in Connections : DispatchConnection(s)
    \/ \E s \in Connections : TwilioMessage(s)

DispatchSpec == DispatchInit /\ [][DispatchNext]_vars

\* the n-th message connection s received
ReceivedAt(s, n) == socket[s].received[n].message
Invoked(s, n) == \E i \in 1..Len(socket[s].invoked) : socket[s].invoked[i].n = n
Surfaced(s, n) == \E i \in 1..Len(socket[s].errors) : socket[s].errors[i].n = n
UnknownEvent(message) ==
    message.data = "object" /\ message.event \notin TwilioEventNames

\* a step that hands connection s a message with an unknown event name
\* changes nothing but the history of received messages
C13_UnknownStep ==
    \A s \in Connections :
        (/\ Len(socket'[s].received) = Len(socket[s].received) + 1
         /\ UnknownEvent(socket'[s].received[Len(socket'[s].received)].message))
        => /\ socket'[s] = [socket[s] EXCEPT !.received = socket'[s].received]
           /\ \A r \in Connections \ {s} : socket'[r] = socket[r]
           /\ UNCHANGED <<client, callSeq, apiCalls>>

\* C13: a telephony message whose event name is outside {connected, start,
\* media, stop, dtmf, mark} invokes no handler, raises nothing, surfaces no
\* connection error and leaves connection and session state unchanged.
C13_UnknownEventIgnored == [][C13_UnknownStep]_vars

\* C13 witness: a 'ping' arrived while registered handlers would throw, and
\* the connection shows no invocation and no error
C13_Witness ==
    \E s \in Connections :
        /\ Len(socket[s].received) >= 1
        /\ socket[s].received[1] =
                [message |-> Message("object", "ping"), handler |-> "throws"]
        /\ ~Invoked(s, 1) /\ ~Surfaced(s, 1) /\ ~socket[s].escaped

\* the n-th message of connection s reached a registered handler that threw
HandlerThrew(s, n) ==
    /\ socket[s].received[n].handler = "throws"
    /\ ReceivedAt(s, n).data = "object"
    /\ ReceivedAt(s, n).event \in TwilioEventNames

\* C14: an exception a handler throws during dispatch is caught and surfaced
\* as a connection error; it never leaves the listener, and every message
\* for which a handler is registered, before or after, on this or another
\* connection, is dispatched to it.
C14_HandlerExceptionSurfaced ==
    \A s \in Connections :
        /\ ~socket[s].escaped
        /\ \A n \in 1..Len(socket[s].received) :
            /\ HandlerThrew(s, n) =>
                    [n |-> n, cause |-> "handler"] \in Range(socket[s].errors)
            /\ (/\ ReceivedAt(s, n).data = "object"
                /\ ReceivedAt(s, n).event \in TwilioEventNames
                /\ socket[s].received[n].handler \in {"returns", "throws"})
               => Invoked(s, n)

\* C14 witness: a handler threw on the first message of a connection, its
\* second message was dispatched, and so was a message of the other
\* connection
C14_Witness ==
    \E s, r \in Connections :
        /\ s # r
        /\ Len(socket[s].received) = 2
        /\ HandlerThrew(s, 1) /\ Surfaced(s, 1)
        /\ socket[s].received[2].handler = "returns" /\ Invoked(s, 2)
        /\ Len(socket[r].received) = 1 /\ Invoked(r, 1)

\* C15: a malformed message (text that is not JSON, or an object without a
\* recognised event field) is ignored silently: no handler is invoked and no
\* error is surfaced on the connection.
C15_MalformedIgnored ==
    \A s \in Connections : \A n \in 1..Len(socket[s].received) :
        (ReceivedAt(s, n).data = "notjson" \/ UnknownEvent(ReceivedAt(s, n)))
        => ~Invoked(s, n) /\ ~Surfaced(s, n)
(***************************************************************************)
(* Termination of a call                                                   *)
(***************************************************************************)
\* the close event of a model connection that errored or that was closed by
\* the client: the transport delivers it without waiting for the peer
GeminiCloseCompletes(c) ==
    /\ client[c].ws \in {"closing", "failed"}
    /\ GeminiClose(c)

\* the bridge, with a transport that completes what is under way: the
\* handshake of a connecting client, the setupComplete answer to its setup
\* frame, the greeting delay, and the close event after an error event or
\* after close().  A peer that keeps an open connection open is left free.
LiveSpec ==
    /\ Spec
    /\ \A c \in Clients :
        /\ WF_vars(GeminiOpen(c))
        /\ WF_vars(GeminiSetupComplete(c))
        /\ WF_vars(GreetingTimer(c))
        /\ WF_vars(GeminiCloseCompletes(c))

CompletionOf(sk, outcome) ==
    [event |-> IF outcome = "failed" THEN "call.failed" ELSE "call.completed",
     call_id |-> sk.callId, outcome |-> outcome]

\* the call of sk is ended by this step with the given outcome, or had
\* been ended before
EndedWith(sk, skNext, outcome) ==
    /\ skNext.callEnded
    /\ ~sk.callEnded => skNext.webhooks = Append(sk.webhooks, CompletionOf(sk, outcome))
    /\ sk.callEnded => skNext.webhooks = sk.webhooks

\* the close event and the error event of a model connection, handled
C16_Step ==
    \A c \in Clients :
        LET s == client[c].owner
        IN  /\ (client[c].ws # "closed" /\ client'[c].ws = "closed" /\ s # 0)
                => /\ EndedWith(socket[s], socket'[s], "completed")
                   /\ socket'[s].ws # "open"
            /\ (client[c].ws # "failed" /\ client'[c].ws = "failed" /\ s # 0)
                => EndedWith(socket[s], socket'[s], "failed")

\* C16: when the model connection of a call closes the call is ended with
\* outcome completed, when it errors the call is ended with outcome failed
\* (unless it had ended before), and in both cases the telephony connection
\* is closed by the orchestrator: at once on close, and on the close event
\* that follows an error.
C16_ModelCloseEndsCall ==
    /\ [][C16_Step]_vars
    /\ \A c \in Clients :
        (client[c].ws = "failed" /\ client[c].owner # 0)
            ~> (client[c].owner # 0 /\ socket[client[c].owner].ws # "open")

\* C16 witness: the model connection errored on a live call, which was
\* ended failed, and its close event then closed the telephony connection
C16_Witness ==
    \E c \in Clients :
        LET s == client[c].owner
        IN  /\ s # 0
            /\ client[c].ws = "closed"
            /\ socket[s].ws = "closing"
            /\ socket[s].triggers = 2
            /\ socket[s].webhooks[Len(socket[s].webhooks)].event = "call.failed"

\* the close event of the telephony connection of a started call, handled
C17_Step ==
    \A s \in Sockets :
        (socket[s].ws # "closed" /\ socket'[s].ws = "closed" /\ socket[s].started > 0)
        => /\ EndedWith(socket[s], socket'[s], "completed")
           /\ socket'[s].geminiClient = 0
           /\ LET g == socket[s].geminiClient
              IN  g # 0 => client'[g].ws \in {"closing", "failed", "closed"}

\* C17: when the telephony connection of a started call closes, the call is
\* ended with outcome completed (unless it had ended before) and the model
\* client associated with the connection, if any, is closed and dissociated.
C17_TelephonyCloseEndsCall == [][C17_Step]_vars

\* C17 witness: the telephony connection closed first on a call whose model
\* client was ready; the call completed and the client is closing, no longer
\* associated
C17_Witness ==
    \E s \in Sockets :
        /\ socket[s].ws = "closed"
        /\ socket[s].triggers = 1
        /\ socket[s].geminiClient = 0
        /\ socket[s].lastSetup # 0
        /\ client[socket[s].lastSetup].ws = "closing"
        /\ socket[s].webhooks[Len(socket[s].webhooks)].event = "call.completed"

\* C18: a transport error on either leg of a started call marks the call
\* failed: once a transport error was delivered on the telephony connection
\* or on the model connection of a live call, the call's completion
\* notification is call.failed.
C18_TransportErrorFailsCall ==
    \A s \in Sockets :
        /\ \A c \in Clients :
            (client[c].ws = "failed" /\ client[c].owner = s)
                => socket[s].callEnded
        /\ (socket[s].errorLive /\ socket[s].callEnded)
            => socket[s].webhooks[Len(socket[s].webhooks)].event = "call.failed"

(***************************************************************************)
(* Relaying one event                                                      *)
(***************************************************************************)
\* a media event handled on connection s while its model client is ready
C19_Step ==
    \A s \in Sockets :
        LET g == socket[s].geminiClient
            n == Len(socket'[s].mediaLog)
            event == socket'[s].mediaLog[n]
        IN  (n = Len(socket[s].mediaLog) + 1 /\ g # 0 /\ client[g].isReady)
            => /\ \A c \in Clients \ {g} : client'[c] = client[c]
               /\ IF event.track = "inbound" /\ event.payload # <<>>
                  THEN /\ client'[g] = [client[g] EXCEPT !.sent = client'[g].sent]
                       /\ Len(client'[g].sent) = Len(client[g].sent) + 1
                       /\ SubSeq(client'[g].sent, 1, Len(client[g].sent)) = client[g].sent
                       /\ LET f == client'[g].sent[Len(client'[g].sent)]
                          IN  /\ f.kind = "realtimeInput" /\ f.part = "audio"
                              /\ f.mimeType = "audio/pcm;rate=16000"
                              /\ f.data = convertBase64MuLawToBase64PCM16k(event.payload)
                              /\ Len(f.data) = 2 * Len(event.payload)
                  ELSE client'[g] = client[g]

\* C19: while the model client of a call is ready, every inbound media event
\* with a non-empty payload produces exactly one realtimeInput audio send
\* tagged audio/pcm;rate=16000 that carries the upsampled payload, and every
\* outbound or empty media event produces no send.
C19_MediaForwarded == [][C19_Step]_vars

\* C19 witness: with the client ready, an outbound media event produced no
\* send and a 160-byte inbound payload was forwarded as one frame of 320
\* samples
C19_Witness ==
    \E s \in Sockets : \E c \in Clients :
        /\ Len(socket[s].mediaLog) = 2
        /\ socket[s].mediaLog[1].track = "outbound"
        /\ socket[s].mediaLog[1].to = c
        /\ socket[s].mediaLog[2].track = "inbound"
        /\ Len(socket[s].mediaLog[2].payload) = 160
        /\ Count(client[c].sent, IsRealtimeInput) = 1
        /\ \E i \in 1..Len(client[c].sent) :
            /\ IsRealtimeInput(client[c].sent[i])
            /\ Len(client[c].sent[i].data) = 320

\* the outbound frames the parts of one message give, in part order
RECURSIVE FramesOf(_, _)
FramesOf(parts, streamSid) ==
    IF parts = <<>> THEN <<>>
    ELSE LET part == Head(parts)
             rest == FramesOf(Tail(parts), streamSid)
         IN  IF part.kind = "inlineData" /\ part.mimeType = "audio/pcm;rate=24000"
                /\ Len(part.data) > 0
             THEN <<[event |-> "media", streamSid |-> streamSid,
                     payload |-> convertBase64PCM24kToBase64MuLaw8k(part.data)]>>
                  \o rest
             ELSE rest

\* a serverContent message handled for connection s while the call is live
C20_Step ==
    \A s \in Sockets :
        LET n == Len(socket'[s].contentLog)
            parts == socket'[s].contentLog[n].parts
        IN  (/\ n = Len(socket[s].contentLog) + 1
             /\ socket[s].geminiClient # 0 /\ socket[s].twilioStreamSid # "")
            => /\ socket'[s].out =
                    socket[s].out \o FramesOf(parts, socket[s].twilioStreamSid)
               /\ Len(socket'[s].out) - Len(socket[s].out) =
                    Count(parts, Is24kPart)

\* C20: for every serverContent message handled on a live call, the outbound
\* media frames written are one per modelTurn part whose inline data is
\* tagged exactly audio/pcm;rate=24000 with non-empty data, in part order,
\* each carrying that part alone; every other part produces no frame.
C20_OneFramePerAudioPart == [][C20_Step]_vars

\* C20 witness: a message with one part of 480 samples produced one frame
\* of 160 bytes, and a message with a 16kHz part, a text part, a
\* function-call part and two 24kHz audio parts produced two frames
C20_Witness ==
    \E s \in Sockets :
        /\ Len(socket[s].contentLog) = 2
        /\ Len(socket[s].contentLog[1].parts) = 1
        /\ Len(socket[s].contentLog[1].parts[1].data) = 480
        /\ Len(socket[s].contentLog[2].parts) = 5
        /\ Len(socket[s].out) = 3
        /\ Len(socket[s].out[1].payload) = 160
        /\ Len(socket[s].out[2].payload) = 160
        /\ Len(socket[s].out[3].payload) = 1

(***************************************************************************)
(* One call per connection whose model sends function calls.  The promise  *)
(* of executeFunction resolves in a step of its own, at any later time:    *)
(* other events of the call are handled in between, and the invocations of *)
(* handleFunctionCalls for different messages resume in any order.         *)
(***************************************************************************)
MaxFunctionContent == 2   \* serverContent messages with function calls per connection

Pricing1 == PricingArgs("premium_service", 2, "standard", "SAVE10")
AvailabilityArgs == [date |-> "2025-01-31"]
TransferArgs == [department |-> "sales"]
AppointmentArgs == [customer_name |-> "Ann", appointment_date |-> "2025-01-31"]

\* the serverContent messages drawn as the k-th of a connection
FunctionContents(k) ==
    IF k = 1
    THEN { [parts |-> <<FunctionCall("calculate_pricing", Pricing1), TextPart,
                        FunctionCall("transfer_call", TransferArgs)>>],
           [parts |-> <<InlineData(PCM24K, PartData(1)),
                        FunctionCall("schedule_appointment", AppointmentArgs)>>] }
    ELSE { [parts |-> <<FunctionCallPart,
                        FunctionCall("add_to_dnc", Undefined),
                        FunctionCall("check_availability", AvailabilityArgs)>>],
           [parts |-> <<TextPart>>] }

\* the promise the r-th suspended invocation of handleFunctionCalls awaits
\* resolves (the call id of the request has no part in the result)
FunctionResult(s) ==
    \E r \in 1..Len(socket[s].runs) :
        LET sk == socket[s]
            g  == sk.geminiClient
            functionCall == Head(sk.runs[r])
            result == executeFunction(FunctionRequest(sk, functionCall))
        IN  /\ socket' = [socket EXCEPT ![s] = resumeFunctionCalls(sk, r, result)]
            /\ client' = IF g = 0 THEN client
                         ELSE [client EXCEPT ![g] =
                                    relayFunctionResult(@, functionCall, result)]
            /\ UNCHANGED <<callSeq, apiCalls, codecVars>>

FunctionNext ==
    \/ \E s \in Sockets : TwilioConnection(s)
    \/ \E s \in Sockets : TwilioStart(s, 1)
    \/ \E s \in Sockets : TwilioMedia(s, 1)
    \/ \E s \in Sockets : TwilioError(s)
    \/ \E s \in Sockets : TwilioClose(s)
    \/ \E c \in Clients : GeminiOpen(c)
    \/ \E c \in Clients : GeminiSetupComplete(c)
    \/ \E c \in Clients : GeminiServerContentFrom(c, MaxFunctionContent,
                                [k \in 1..MaxFunctionContent |-> FunctionContents(k)])
    \/ \E c \in Clients : GreetingTimer(c)
    \/ \E c \in Clients : GeminiError(c)
    \/ \E c \in Clients : GeminiClose(c)
    \/ \E s \in Sockets : FunctionResult(s)

FunctionSpec == Init /\ [][FunctionNext]_vars

(***************************************************************************)
(* Two telephony connections served by the one process at the same time,   *)
(* each with one call: one 'start', one media event, one serverContent     *)
(* message with an audio part and a function call.                         *)
(***************************************************************************)
PairEvents(s) == { [track |-> "inbound", payload |-> MediaPayload(s)] }
PairContents ==
    { [parts |-> <<InlineData(PCM24K, PartData(1)),
                   FunctionCall("calculate_pricing", Pricing1)>>] }

PairNext ==
    \/ \E s \in Connections : TwilioConnection(s)
    \/ \E s \in Connections : TwilioStart(s, 1)
    \/ \E s \in Connections : TwilioMediaFrom(s, 1, PairEvents(s))
    \/ \E s \in Connections : TwilioClose(s)
    \/ \E c \in Clients : GeminiOpen(c)
    \/ \E c \in Clients : GeminiSetupComplete(c)
    \/ \E c \in Clients : GeminiServerContentFrom(c, 1, [k \in 1..1 |-> PairContents])
    \/ \E c \in Clients : GreetingTimer(c)
    \/ \E c \in Clients : GeminiError(c)
    \/ \E c \in Clients : GeminiClose(c)
    \/ \E s \in Connections : FunctionResult(s)

PairSpec == DispatchInit /\ [][PairNext]_vars

IsFunctionResponse(f) == f.kind = "clientContent" /\ f.part = "functionResponse"

RECURSIVE SumOver(_, _)
\* the sum of f[x] over the finite set S
SumOver(f, S) ==
    IF S = {} THEN 0
    ELSE LET x == CHOOSE y \in S : TRUE IN f[x] + SumOver(f, S \ {x})

\* the function responses named name written to the model connections of
\* connection s, in the client states cls
AnswersIn(cls, s, name) ==
    LET Named(f) == IsFunctionResponse(f) /\ f.name = name
        mine == {c \in Clients : cls[c].ws # "none" /\ cls[c].owner = s}
    IN  SumOver([c \in Clients |-> Count(cls[c].sent, Named)], mine)

\* all function responses written to the model connections of connection s
ResponsesIn(cls, s) ==
    LET mine == {c \in Clients : cls[c].ws # "none" /\ cls[c].owner = s}
    IN  SumOver([c \in Clients |-> Count(cls[c].sent, IsFunctionResponse)], mine)

\* the function calls with a name and arguments among parts
DispatchableIn(parts) == SelectSeq(FunctionCallsOf(parts), IsDispatchable)

\* the function calls with a name and arguments that connection sk received,
\* and those that the suspended invocations still have to dispatch
ReceivedCalls(sk) ==
    SumOver([i \in 1..Len(sk.contentLog) |-> Len(DispatchableIn(sk.contentLog[i].parts))],
            1..Len(sk.contentLog))
WaitingCalls(sk) ==
    SumOver([r \in 1..Len(sk.runs) |-> Len(SelectSeq(Tail(sk.runs[r]), IsDispatchable))],
            1..Len(sk.runs))

\* C21 as stated: every function call (with a name and arguments) of a
\* serverContent message received on a live call (model ready, telephony
\* open) is dispatched to executeFunction and, once no execution is pending,
\* has exactly one function response written to the model; none is ever
\* answered twice.
C21_EveryCallAnswered ==
    \A s \in Sockets :
        \A i \in 1..Len(socket[s].contentLog) :
            LET e == socket[s].contentLog[i]
                calls == DispatchableIn(e.parts)
            IN  \A j \in 1..Len(calls) :
                    /\ AnswersIn(client, s, calls[j].name) <= 1
                    /\ (e.live /\ e.open /\ socket[s].runs = <<>>) =>
                        /\ \E n \in 1..Len(socket[s].executed) :
                                socket[s].executed[n].name = calls[j].name
                        /\ AnswersIn(client, s, calls[j].name) = 1

C21_Step ==
    \A s \in Sockets :
        LET sk == socket[s]
            skNext == socket'[s]
            resumed == Len(skNext.reports) = Len(sk.reports) + 1
        IN  /\ Len(skNext.reports) \in {Len(sk.reports), Len(sk.reports) + 1}
            /\ Len(skNext.executed) = Len(skNext.reports) + Len(skNext.runs)
            /\ ReceivedCalls(skNext) = Len(skNext.executed) + WaitingCalls(skNext)
            /\ ~resumed => ResponsesIn(client', s) = ResponsesIn(client, s)
            /\ resumed =>
                \E r \in 1..Len(sk.runs) :
                    LET name == Head(sk.runs[r]).name
                        g == sk.geminiClient
                        answered == g # 0 /\ client[g].isReady
                        written == IF answered THEN 1 ELSE 0
                    IN  /\ skNext.reports[Len(skNext.reports)].function_name = name
                        /\ ResponsesIn(client', s) = ResponsesIn(client, s) + written
                        /\ AnswersIn(client', s, name) = AnswersIn(client, s, name) + written

\* C21, amended: every function call with a name and arguments that a
\* connection receives is dispatched to executeFunction exactly once (at
\* once, or when the calls before it in its message have completed), and the
\* completion of each execution writes exactly one function response if the
\* connection then has an associated model client that is ready, and none
\* otherwise; no other step writes a function response.
C21_AnsweredWhileLive == [][C21_Step]_vars

\* C21 witness: of the function calls of one connection, all completed, one
\* was answered and one was not
C21_Witness ==
    \E s \in Sockets :
        /\ socket[s].runs = <<>>
        /\ Len(socket[s].reports) >= 2
        /\ ResponsesIn(client, s) >= 1
        /\ ResponsesIn(client, s) < Len(socket[s].reports)

\* the request that the report of a completed function call was made for
RequestOf(sk, report) ==
    [name |-> report.function_name, args |-> report.parameters,
     callId |-> report.call_id, userId |-> sk.userId]

C22_Step ==
    \A s \in Sockets :
        LET sk == socket[s]
            skNext == socket'[s]
            g == sk.geminiClient
        IN  (/\ Len(skNext.reports) = Len(sk.reports) + 1
             /\ g # 0
             /\ client[g].isReady) =>
                LET report == skNext.reports[Len(skNext.reports)]
                    result == executeFunction(RequestOf(sk, report))
                    f == client'[g].sent[Len(client'[g].sent)]
                IN  /\ client'[g].sent = Append(client[g].sent, f)
                    /\ f.kind = "clientContent"
                    /\ f.part = "functionResponse"
                    /\ f.role = "function"
                    /\ f.turnComplete
                    /\ f.name = report.function_name
                    /\ result.success => f.response = result.result
                    /\ ~result.success =>
                            f.response = [error |-> result.error, success |-> FALSE]

\* C22: the function response relayed to the model for an executed function
\* call carries the collaborator's success payload verbatim when the
\* execution succeeded and {error, success: false} with the collaborator's
\* error message when it failed, and is addressed with the name of the
\* function that was called.
C22_ResponsePayload == [][C22_Step]_vars

\* C22 witness: one model connection holds the response to a successful
\* calculate_pricing and the response to a call of an unregistered function
C22_Witness ==
    \E c \in Clients :
        \E i, j \in 1..Len(client[c].sent) :
            /\ IsFunctionResponse(client[c].sent[i])
            /\ client[c].sent[i].name = "calculate_pricing"
            /\ client[c].sent[i].response =
                    [service_type |-> "premium_service", quantity |-> 2,
                     base_price |-> 500, tier_discount |-> 10,
                     total_price |-> 81000, currency |-> "USD"]
            /\ IsFunctionResponse(client[c].sent[j])
            /\ client[c].sent[j].name = "transfer_call"
            /\ client[c].sent[j].response =
                    [error |-> <<"Function '", "transfer_call", "' not found">>,
                     success |-> FALSE]

IsCallStarted(w) == w.event = "call.started"
\* the call ids assigned on connection s, as announced by call.started
CallIdsOf(s) ==
    LET started == SelectSeq(socket[s].webhooks, IsCallStarted)
    IN  {started[i].call_id : i \in 1..Len(started)}

\* C23: each telephony connection is bound to exactly one ModelClient and one
\* CallSession: whatever telephony events arrive on a connection, at most
\* one ModelClient is created for it and at most one call id is assigned to
\* it, and exactly one of each once 'start' was handled.
C23_OneClientOneCall ==
    \A s \in Sockets :
        /\ Cardinality(ClientsOf(s)) <= 1
        /\ Cardinality(CallIdsOf(s)) <= 1
        /\ socket[s].started >= 1 =>
                (Cardinality(ClientsOf(s)) = 1 /\ Cardinality(CallIdsOf(s)) = 1)

\* the error event and the close event of the transport of client c are
\* delivered by this step
ErrorStep(c) == client[c].ws # "failed" /\ client'[c].ws = "failed"
CloseStep(c) == client[c].ws # "closed" /\ client'[c].ws = "closed"

C24_Step ==
    \A c \in Clients :
        /\ client[c].failed => client'[c].failed
        /\ client'[c].failed => ~client'[c].isReady
        /\ client[c].ws = "failed" => client'[c].ws \in {"failed", "closed"}
        /\ client[c].ws = "closed" => client'[c].ws = "closed"
        /\ (ErrorStep(c) \/ CloseStep(c)) => client'[c].failed
        /\ client[c].owner # 0 =>
            LET sk == socket[client[c].owner]
                skNext == socket'[client[c].owner]
            IN  /\ ErrorStep(c) =>
                    /\ skNext.triggers = sk.triggers + 1
                    /\ EndedWith(sk, skNext, "failed")
                /\ CloseStep(c) =>
                    /\ skNext.triggers = sk.triggers + 1
                    /\ EndedWith(sk, skNext, "completed")

\* C24: failure of a model connection is terminal: once a transport error or
\* close event was delivered on it, its readiness is cleared and never true
\* again, no further error follows an error and nothing follows a close, and
\* the orchestrator's onError and onClose callbacks run exactly once for the
\* error event and once for the close event.
C24_FailureIsTerminal == [][C24_Step]_vars

\* C24 witness: a connection that had become ready took a transport error
\* and then its close event; both callbacks ran and it is not ready
C24_Witness ==
    \E c \in Clients :
        /\ client[c].ws = "closed"
        /\ client[c].setupDone
        /\ ~client[c].isReady
        /\ client[c].owner # 0
        /\ socket[client[c].owner].triggers = 2
        /\ \E i \in 1..Len(socket[client[c].owner].webhooks) :
                socket[client[c].owner].webhooks[i].event = "call.failed"

\* the integer nearest to (a + b + c) / 3; a third is never a tie
NearestMean(a, b, c) ==
    LET sum == a + b + c
    IN  CHOOSE m \in ((sum \div 3) - 1)..((sum \div 3) + 1) :
            3 * m - sum \in -1..1

\* C25: downsampling exactly 3k samples returns exactly k bytes, with
\* out[i] = pcmToMuLaw(round((in[3i] + in[3i+1] + in[3i+2]) / 3)); the result
\* depends on the input alone; 480 samples give 160 bytes.
C25_DownsampleAverages ==
    (codecOp = "downsample" /\ Len(codecIn.data) % 3 = 0) =>
        LET in == codecIn.data
            k == Len(in) \div 3
        IN  /\ Len(codecOut) = k
            /\ \A i \in 0..(k - 1) :
                codecOut[i + 1] =
                    pcmToMuLaw(NearestMean(in[3 * i + 1], in[3 * i + 2], in[3 * i + 3]))
            /\ \A j \in 1..Len(codecOut) : codecOut[j] \in Bytes

\* C25 witness: a part of 480 samples was downsampled to 160 bytes
C25_Witness ==
    /\ codecOp = "downsample"
    /\ Len(codecIn.data) = 480
    /\ Len(codecOut) = 160

\* C26: when the execution of a function call fails, the failure is reported
\* to the webhook collaborator with the error payload: the report of that
\* call carries the error information as its result; and every dispatched
\* function call has exactly one report once its execution has completed.
C26_FailureReported ==
    \A s \in Sockets :
        LET sk == socket[s]
        IN  /\ Len(sk.executed) = Len(sk.reports) + Len(sk.runs)
            /\ \A n \in 1..Len(sk.reports) :
                LET result == executeFunction(RequestOf(sk, sk.reports[n]))
                IN  ~result.success =>
                        sk.reports[n].result = [error |-> result.error]

IsSetup(f) == f.kind = "setup"
Setups(cl) == Count(cl.sent, IsSetup)

\* the open event of the transport of client c is handled by this step
OpenStep(c) == client[c].ws = "connecting" /\ client'[c].ws = "open"

C27_Step ==
    \A c \in Clients :
        /\ OpenStep(c) => client'[c].sent = <<SetupRequest>>
        /\ ~OpenStep(c) => Setups(client'[c]) = Setups(client[c])
        /\ (client[c].sent = <<>> /\ client'[c].sent # <<>>) => OpenStep(c)
        /\ (~client[c].isReady /\ client'[c].isReady) =>
                (~client[c].setupDone /\ client'[c].setupDone)

\* C27: on each model connection the setup frame is written exactly once,
\* when the transport opens, and is the first frame written: no realtimeInput
\* or clientContent frame precedes it; readiness is set only by the receipt
\* of setupComplete.
C27_SetupFirstOnce == [][C27_Step]_vars

\* C27 witness: a caller tried to send before the transport opened, and the
\* connection now holds the setup frame first and a content frame after it
C27_Witness ==
    \E c \in Clients :
        /\ client[c].isReady
        /\ Len(client[c].sent) >= 2
        /\ client[c].sent[1] = SetupRequest
        /\ Setups(client[c]) = 1
        /\ \E a \in apiCalls : a.client = c /\ ~a.ready

\* the positions of the call.started notifications of connection s
StartedAt(s) ==
    {i \in 1..Len(socket[s].webhooks) : socket[s].webhooks[i].event = "call.started"}

\* C28: each 'start' event handled produces exactly one call.started
\* notification, carrying a call id no earlier call was given and the start
\* time recorded for the call; it is emitted before the ModelClient of that
\* 'start' is constructed and before any completion notification with that
\* call id.
C28_StartedFirst ==
    \A s \in Sockets :
        LET w == socket[s].webhooks
        IN  /\ Cardinality(StartedAt(s)) = socket[s].started
            /\ \A i \in StartedAt(s) :
                \A r \in Sockets : \A j \in StartedAt(r) :
                    (r # s \/ j # i) => socket[r].webhooks[j].call_id # w[i].call_id
            /\ socket[s].started > 0 =>
                \E i \in StartedAt(s) :
                    /\ \A j \in StartedAt(s) : j <= i
                    /\ w[i].call_id = socket[s].callId
                    /\ w[i].timestamp = socket[s].callStartTime
            /\ Len(socket[s].born) = socket[s].started
            /\ \A n \in 1..Len(socket[s].born) :
                LET b == socket[s].born[n]
                IN  /\ b \in StartedAt(s)
                    /\ Cardinality({i \in StartedAt(s) : i <= b}) = n
            /\ \A j \in 1..Len(w) :
                IsCompletion(w[j]) =>
                    \E i \in StartedAt(s) : i < j /\ w[i].call_id = w[j].call_id

\* C28 witness: two 'start' events were handled on a connection and a
\* completion notification was emitted for it
C28_Witness ==
    \E s \in Sockets :
        /\ socket[s].started = 2
        /\ Len(socket[s].born) = 2
        /\ Completions(s) = 1

\* the state of the call of connection r is the same before and after
CallUnchanged(r) ==
    /\ socket'[r] = socket[r]
    /\ \A c \in Clients :
        (client[c].owner = r \/ client'[c].owner = r) => client'[c] = client[c]

\* C29: calls are isolated: of two calls in progress at the same time, an
\* event on the telephony or model connection of one (or the completion of
\* one of its function executions) never writes to, closes, or changes the
\* session state (call id, ended flag, stream id, function-call list) of the
\* other: every step leaves all calls but one untouched.
C29_CallsIsolated ==
    [][\E s \in Connections : \A r \in Connections \ {s} : CallUnchanged(r)]_vars

\* C29 witness: two calls are bridged at the same time, each with media
\* relayed in both directions and a function call dispatched
C29_Witness ==
    /\ socket[1].callId # socket[2].callId
    /\ \A s \in Connections :
        /\ socket[s].ws = "open"
        /\ socket[s].geminiClient # 0
        /\ client[socket[s].geminiClient].isReady
        /\ Count(client[socket[s].geminiClient].sent, IsRealtimeInput) = 1
        /\ Len(socket[s].out) = 1
        /\ Len(socket[s].functionCalls) = 1

\* C30: no model connection outlives its call: once the telephony connection
\* of a call has closed, every model connection created for it is
\* eventually closed, also when the telephony connection closes before
\* setupComplete arrives.
C30_ClientClosedAfterCall ==
    \A c \in Clients :
        (/\ client[c].ws # "none"
         /\ client[c].owner # 0
         /\ socket[client[c].owner].ws = "closed")
            ~> (client[c].ws = "closed")

\* C31: no outbound media frame is written to a telephony connection after
\* that connection has closed, however the telephony close interleaves with
\* the model's setupComplete and serverContent: no step adds a frame to a
\* closed connection.
C31_NoFrameAfterClose ==
    [][\A s \in Sockets :
            socket[s].ws = "closed" => socket'[s].out = socket[s].out]_vars

\* C32: on every model connection the greeting turn is the first content
\* frame after the setup frame: no realtimeInput audio frame is written
\* between the receipt of setupComplete and the greeting, also when inbound
\* telephony media arrives during the greeting delay.
C32_GreetingFirst ==
    \A c \in Clients :
        /\ Len(client[c].sent) >= 2 => IsGreeting(client[c].sent[2])
        /\ \A i \in 1..Len(client[c].sent) :
            IsRealtimeInput(client[c].sent[i]) =>
                \E j \in 1..(i - 1) : IsGreeting(client[c].sent[j])

\* the termination trigger that this step delivers to connection s, "" if
\* the step is none
TriggerOf(s) ==
    IF \E c \in Clients : client[c].owner = s /\ ErrorStep(c) THEN "model error"
    ELSE IF \E c \in Clients : client[c].owner = s /\ CloseStep(c) THEN "model close"
    ELSE IF socket[s].ws # "closed" /\ socket'[s].ws = "closed" /\ socket[s].started > 0
    THEN "telephony close"
    ELSE ""

C33_Step ==
    \A s \in Sockets :
        LET sk == socket[s]
            skNext == socket'[s]
            outcome == IF TriggerOf(s) = "model error" THEN "failed" ELSE "completed"
        IN  /\ (TriggerOf(s) # "" /\ sk.triggers = 0) =>
                /\ skNext.webhooks = Append(sk.webhooks, CompletionOf(sk, outcome))
                /\ skNext.callEnded
            /\ (TriggerOf(s) # "" /\ sk.triggers > 0) =>
                /\ skNext.webhooks = sk.webhooks
                /\ sk.callEnded /\ skNext.callEnded
            /\ TriggerOf(s) # "" => skNext.triggers = sk.triggers + 1
            /\ TriggerOf(s) = "" =>
                /\ skNext.triggers = sk.triggers
                /\ Count(skNext.webhooks, IsCompletion) = Count(sk.webhooks, IsCompletion)

\* C33: the outcome reported at termination is fixed by the first
\* termination trigger of the connection's call: that trigger emits
\* call.failed with outcome failed if and only if it is a model error, and
\* call.completed with outcome completed if it is a model close or a
\* telephony close; later triggers neither change nor repeat it, and no
\* other step emits a completion notification.
C33_FirstTriggerFixesOutcome == [][C33_Step]_vars

\* C33 witness: a call ended as completed by a first trigger that was not a
\* model error, although a model error was delivered later
C33_Witness ==
    \E s \in Sockets :
        /\ socket[s].triggers >= 2
        /\ Completions(s) = 1
        /\ \E i \in 1..Len(socket[s].webhooks) :
                socket[s].webhooks[i].event = "call.completed"
        /\ \E c \in Clients : client[c].owner = s /\ client[c].ws = "failed"

\* the number of completion notifications of connection s that carry call id
CompletionsFor(s, id) ==
    Cardinality({i \in 1..Len(socket[s].webhooks) :
                    /\ IsCompletion(socket[s].webhooks[i])
                    /\ socket[s].webhooks[i].call_id = id})

\* a leg of connection s has closed: the telephony socket, or the socket of
\* a ModelClient constructed for it
LegClosed(s) ==
    \/ socket[s].ws = "closed"
    \/ \E c \in Clients : client[c].owner = s /\ client[c].ws = "closed"

\* C34: every call.started notification is matched, once either leg of its
\* connection has closed, by exactly one completion notification
\* (call.completed or call.failed) carrying the same call id, for every
\* sequence of telephony events on the connection, including more than one
\* 'start' event.
C34_StartedIsCompleted ==
    \A s \in Sockets :
        LegClosed(s) => \A id \in CallIdsOf(s) : CompletionsFor(s, id) = 1

\* the same for the connections that handled a single 'start' event
C34_SingleStart ==
    \A s \in Sockets :
        (LegClosed(s) /\ socket[s].started = 1) =>
            \A id \in CallIdsOf(s) : CompletionsFor(s, id) = 1

\* C35: no function call is dispatched to the function-execution
\* collaborator for a call after that call's completion notification has
\* been emitted, so the function_calls list reported at completion contains
\* every function call executed for the call.
C35_NoDispatchAfterCompletion ==
    [][\A s \in Sockets :
            socket[s].callEnded =>
                /\ socket'[s].executed = socket[s].executed
                /\ socket'[s].functionCalls = socket[s].functionCalls]_vars

RECURSIVE NamesReceived(_, _)
\* the names of the function calls with a name and arguments in the first n
\* serverContent messages that connection sk received, in order of receipt
NamesReceived(sk, n) ==
    IF n = 0 THEN <<>>
    ELSE LET calls == DispatchableIn(sk.contentLog[n].parts)
         IN  NamesReceived(sk, n - 1) \o [j \in 1..Len(calls) |-> calls[j].name]

\* the names of the function responses written to model connection c, in
\* the order written
ResponseNames(c) ==
    LET responses == SelectSeq(client[c].sent, IsFunctionResponse)
    IN  [i \in 1..Len(responses) |-> responses[i].name]

\* the responses in written keep the order that their calls have in calls
\* (every name occurs once in calls)
InOrderOf(written, calls) ==
    \A i, j \in 1..Len(written) :
        \A m, n \in 1..Len(calls) :
            (i < j /\ written[i] = calls[n] /\ written[j] = calls[m]) => n < m

\* C36: function responses are written to the model in the order in which
\* their function calls were received, within one serverContent message and
\* also across successive serverContent messages.
C36_ResponsesInOrderReceived ==
    \A c \in Clients :
        client[c].owner # 0 =>
            LET sk == socket[client[c].owner]
            IN  InOrderOf(ResponseNames(c), NamesReceived(sk, Len(sk.contentLog)))

\* calls is what is left of the function calls of one of the serverContent
\* messages that connection sk received, from some call of it to its last
IsRestOfMessage(sk, calls) ==
    \E k \in 1..Len(sk.contentLog) :
        LET all == FunctionCallsOf(sk.contentLog[k].parts)
        IN  /\ Len(calls) <= Len(all)
            /\ calls = SubSeq(all, Len(all) - Len(calls) + 1, Len(all))

\* the request dispatched last is for functionCall
DispatchedLast(sk, functionCall) ==
    LET request == sk.executed[Len(sk.executed)]
    IN  request.name = functionCall.name /\ request.args = functionCall.args

C36_Step ==
    \A s \in Sockets :
        LET sk == socket[s]
            skNext == socket'[s]
            received == Len(skNext.contentLog) = Len(sk.contentLog) + 1
            completed == Len(skNext.reports) = Len(sk.reports) + 1
            dispatched == Len(skNext.executed) - Len(sk.executed)
            answered == ResponsesIn(client', s) - ResponsesIn(client, s)
        IN  /\ dispatched \in {0, 1}
            /\ answered \in {0, 1}
            /\ ~(received /\ completed)
            /\ SubSeq(skNext.executed, 1, Len(sk.executed)) = sk.executed
            /\ \A r \in 1..Len(skNext.runs) : IsRestOfMessage(skNext, skNext.runs[r])
            /\ received =>
                LET calls == DispatchableIn(
                                skNext.contentLog[Len(skNext.contentLog)].parts)
                IN  IF calls = <<>> THEN dispatched = 0
                    ELSE dispatched = 1 /\ DispatchedLast(skNext, calls[1])
            /\ (dispatched = 1 /\ ~received) => completed
            /\ answered = 1 => completed
            /\ completed =>
                \E r \in 1..Len(sk.runs) :
                    LET functionCall == Head(sk.runs[r])
                        rest == SelectSeq(Tail(sk.runs[r]), IsDispatchable)
                        report == skNext.reports[Len(skNext.reports)]
                    IN  /\ report.function_name = functionCall.name
                        /\ report.parameters = functionCall.args
                        /\ answered = 1 =>
                            AnswersIn(client', s, functionCall.name) =
                                AnswersIn(client, s, functionCall.name) + 1
                        /\ IF rest = <<>> THEN dispatched = 0
                           ELSE dispatched = 1 /\ DispatchedLast(skNext, rest[1])

\* C36, amended: the function responses to the function calls of one
\* serverContent message are written to the model in the order in which the
\* message lists the calls: the first call of a message is dispatched when
\* the message is received, each later one only in the step in which the
\* execution of the call before it in the same message completes, and the
\* response to a call is written in the step in which its execution
\* completes; responses to calls of different messages are written in the
\* order in which their executions complete.
C36_ResponsesInOrderWithinMessage == [][C36_Step]_vars

\* C36 witness: both calls of the first message were answered, in their
\* order, and the call of the second message was answered before the second
\* one of the first
C36_Witness ==
    \E c \in Clients :
        /\ client[c].owner # 0
        /\ Len(socket[client[c].owner].contentLog) = 2
        /\ \E i, j, k \in 1..Len(ResponseNames(c)) :
            /\ i < j
            /\ k < j
            /\ ResponseNames(c)[i] = "calculate_pricing"
            /\ ResponseNames(c)[j] = "transfer_call"
            /\ ResponseNames(c)[k] = "check_availability"

(***************************************************************************)
(* FunctionCallHandler driven directly: executeFunction is called with     *)
(* requests for registered and unregistered functions, with and without a  *)
(* userId, on handler objects with every kind of database behind them.     *)
(* Each call is recorded in apiCalls with what it did.                     *)
(***************************************************************************)
MaxExecutions == 2   \* calls of executeFunction

\* the requests: registered functions and an unregistered one, with and
\* without a userId ("" stands for an absent property)
ExecuteRequests ==
    LET EmailArgs == [customer_email |-> "ann@example.com",
                      template_type |-> "thanks"]
        CustomerArgs(phone_number) ==
            [phone_number |-> phone_number, email |-> "", customer_id |-> ""]
        calls == { FunctionCall("calculate_pricing", Pricing1),
                   FunctionCall("check_availability", AvailabilityArgs),
                   FunctionCall("send_followup_email", EmailArgs),
                   FunctionCall("get_customer_info", CustomerArgs("+15550100")),
                   FunctionCall("get_customer_info", CustomerArgs("")),
                   FunctionCall("transfer_call", TransferArgs) }
    IN  { [name |-> call.name, args |-> call.args, callId |-> 1,
           userId |-> userId] : call \in calls, userId \in {"", "U1"} }

\* a caller awaits executeFunction(request) on a handler object
ExecuteFunction ==
    /\ Cardinality(apiCalls) < MaxExecutions
    /\ \E supabase \in {"none", "ok", "error", "notfound", "rejects"},
          request \in ExecuteRequests :
        apiCalls' = apiCalls \cup
            {[n |-> Cardinality(apiCalls) + 1, supabase |-> supabase,
              request |-> request,
              run |-> runExecuteFunction([supabase |-> supabase], request)]}
    /\ UNCHANGED <<socket, client, callSeq, codecVars>>

ExecuteNext == ExecuteFunction

ExecuteSpec == Init /\ [][ExecuteNext]_vars

\* the cases of a request
Unregistered(request) == request.name \notin RegisteredFunctions
Unauthenticated(request) ==
    /\ request.name \in RegisteredFunctions
    /\ RequiresAuth[request.name]
    /\ request.userId = ""

\* C37: executeFunction never raises to its caller: a request naming an
\* unregistered function, a request for a requiresAuth function without a
\* userId, and a request whose handler throws each return a response with
\* success = false and an error message (the handler is not invoked in the
\* first two cases), and a handler that returns normally yields
\* success = true with its result.
C37_ExecuteFunctionNeverRaises ==
    \A e \in apiCalls :
        /\ ~e.run.raised
        /\ (Unregistered(e.request) \/ Unauthenticated(e.request)) =>
                /\ e.run.handler = "none"
                /\ ~e.run.response.success
                /\ e.run.response.error # <<>>
        /\ ~(Unregistered(e.request) \/ Unauthenticated(e.request)) =>
                e.run.handler \in {"threw", "returned"}
        /\ e.run.handler = "threw" =>
                /\ ~e.run.response.success
                /\ e.run.response.error # <<>>
                /\ e.run.response.result = Undefined
        /\ e.run.handler = "returned" =>
                /\ e.run.response.success
                /\ e.run.response.result # Undefined
                /\ e.run.response.result =
                        callHandler(e.request.name, e.request.args,
                                    [callId |-> e.request.callId,
                                     userId |-> e.request.userId,
                                     supabase |-> e.supabase]).value

\* C37 witness: one call whose handler threw while the database rejected
\* every request, the insert of the log included, and one call whose handler
\* returned
C37_Witness ==
    /\ \E e \in apiCalls :
        /\ e.supabase = "rejects"
        /\ e.request.userId # ""
        /\ e.run.handler = "threw"
        /\ ~e.run.raised
        /\ ~e.run.response.success
    /\ \E e \in apiCalls :
        /\ e.run.handler = "returned"
        /\ e.request.userId # ""
        /\ e.run.response.success

(***************************************************************************)
(* The stores of the two conversions into their Int16Array buffers: Init   *)
(* draws a companded byte or three samples, one action per store computes  *)
(* the value and what the buffer element holds after the store.            *)
(***************************************************************************)
StoreInit ==
    /\ codecOp = "input"
    /\ LET samples == {-32768, -32767, -16384, -133, -2, -1, 0, 1, 2, 1000,
                       16384, 32766, 32767}
       IN  codecIn \in [kind : {"byte"}, u : Bytes]
                       \cup [kind : {"samples"}, a : samples, b : samples,
                             c : samples]
    /\ codecOut = 0
    /\ BridgeInit

\* pcm8000[i] = this.muLawToPCM(muLawBytes[i])
StoreDecoded ==
    /\ codecOp = "input"
    /\ codecIn.kind = "byte"
    /\ codecOp' = "pcm8000"
    /\ codecOut' = [value |-> muLawToPCM(codecIn.u),
                    stored |-> ToInt16(muLawToPCM(codecIn.u))]
    /\ UNCHANGED <<codecIn, bridgeVars>>

\* interpolated[i] = Math.round((a + b + c) / 3)
StoreMean ==
    /\ codecOp = "input"
    /\ codecIn.kind = "samples"
    /\ codecOp' = "interpolated"
    /\ codecOut' = [value |-> RoundDiv3(codecIn.a + codecIn.b + codecIn.c),
                    stored |-> ToInt16(RoundDiv3(codecIn.a + codecIn.b + codecIn.c))]
    /\ UNCHANGED <<codecIn, bridgeVars>>

StoreNext ==
    \/ StoreDecoded
    \/ StoreMean

StoreSpec == StoreInit /\ [][StoreNext]_vars

\* C38: every value the codec stores into a 16-bit sample buffer fits in
\* signed 16 bits, so no store wraps: muLawToPCM(u) is in -32768..32767 for
\* every byte u in 0..255, and the rounded mean of any three samples in
\* -32768..32767 is again in -32768..32767.
C38_StoresFitInt16 ==
    codecOp \in {"pcm8000", "interpolated"} =>
        /\ codecOut.value \in Int16
        /\ codecOut.stored = codecOut.value

\* C38 witness: the mean of three samples at the upper end of the range was
\* stored as it is
C38_Witness ==
    /\ codecOp = "interpolated"
    /\ codecIn.a = 32767 /\ codecIn.b = 32767 /\ codecIn.c = 32766
    /\ codecOut.stored = 32767
====
